---- MODULE Spec2Model ----
(***************************************************************************)
(* Staged quantization of a searchable network (darts-UNIQ).               *)
(*                                                                         *)
(* Two model classes own a staging cursor nLayersQuantCompleted:           *)
(*   - Network  (cnn/model_search.py): a stack of cells, switch_stage()    *)
(*     freezes the convolutions of the cell under the cursor;              *)
(*   - BaseNet  (cnn/models/BaseNet.py): a list of mixed layers, the       *)
(*     weight-training hooks preForward/postForward, the bulk helpers and  *)
(*     updateCheckpointStatistics().                                       *)
(* cls records which of the two classes was constructed.  The layers of    *)
(* BaseNet (MixedLayer and its operations) and the switch_stage() of its   *)
(* subclasses live outside the files modelled here; their behaviour is     *)
(* taken from the design specification (sections 3, 4.1 and 4.3).          *)
(*                                                                         *)
(* The specifications share the state:                                     *)
(*   Spec        the staging state machine of Network and BaseNet;         *)
(*   SpecBops    countBops() and applyOnBaseline() over the operation      *)
(*               selection of the mixed layers;                            *)
(*   SpecWeights the quantize/restore pairs of the staged layers, with     *)
(*               the weights followed by value;                            *)
(*   SpecLoad    loadPreTrained();                                         *)
(*   SpecStatistics  updateCheckpointStatistics() over a checkpoint the    *)
(*               caller holds;                                             *)
(*   SpecConstruct   BaseNet.__init__, statement by statement;             *)
(*   SpecActQuant    one ActQuant unit (UNIQ/actquant.py) and its forward; *)
(*   SpecSearch      the cells of Network and Network.forward;             *)
(*   SpecCalc        calcStatistics(), batch by batch;                     *)
(*   SpecAlphas      save_alphas_state() and load_alphas_state() over the  *)
(*               tensors of the layers' alphas;                            *)
(*   SpecOptimal     OptimalModel.train(), statement by statement;         *)
(*   SpecGrid        Statistics.__findGrid (cnn/statistics.py).            *)
(***************************************************************************)
EXTENDS Integers, FiniteSets, Sequences, TLC

\* ------------------------------------------------------------------ bounds

\* largest number of stageable layers (cells of Network, mixed layers of BaseNet)
MaxLayers == 3

\* largest number of cells of a Network whose forward pass is followed
MaxCells == 6

\* largest number of intermediate nodes of a cell
MaxSteps == 3

\* calls of switch_stage() made after the cursor has reached the last layer
MaxExtraCalls == 1

\* ------------------------------------------------------------------- state

VARIABLES
    cls,                    \* "Network" or "BaseNet": the class constructed
    nLayers,                \* len(self.cells) / len(self.layersList)
    nLayersQuantCompleted,  \* the staging cursor
    layersList,             \* layer index -> layer record
    requires_grad,          \* parameter -> param.requires_grad
    learnable_params,       \* self.learnable_params, as a set of parameters
    hookFlag,               \* self.hookFlag
    hooksList,              \* number of handles in self.hooksList
    training,               \* Module.training
    pc,                     \* "idle", "forward" (between the two hooks of one
                            \* forward pass), "ucs" (inside updateCheckpointStatistics)
    nLayersQuantCompletedOrg, \* local of updateCheckpointStatistics
    switchCalls,            \* calls of switch_stage() made so far
    lastCall,               \* the operation invoked last
    raised,                 \* what that invocation raised, "none" if it returned
    returned,               \* what it returned: "None", "True" or "False"
    bitwidths,              \* layer index -> layer.getAllBitwidths()
    withReLU,               \* layer index -> isinstance(layer.filters[0], MixedConvWithReLU)
    curr_alpha_idx,         \* layer index -> filter -> filter.curr_alpha_idx
    baselineBops,           \* the map applyOnBaseline() returned last
    evaluations,            \* the calls of func made by the last applyOnBaseline()
    getBopsCalls,           \* the calls of layer.getBops made by the last countBops()
    floatWeights,           \* layer index -> the float weights the layer was given
    repetitions,            \* completed pairs of quantizing and restoring the
                            \* staged layers
    loadArgs,               \* the path, the checkpoint and the behaviour of the
                            \* two loaders at the last loadPreTrained()
    loadCalls,              \* the loaders that call invoked, in order
    loadedBy,               \* what put the checkpoint's weights in the model
    loggerRows,             \* the rows that call collected
    infoTable,              \* the table that call handed to logger.addInfoTable:
                            \* <<>> if none, else <<rows>>
    optCheckpoint,          \* the checkpoint dict the caller holds, <<>> if none
    savedFile,              \* what the file at the checkpoint's path holds
    statisticsRuns,         \* runs of calcStatistics made for that checkpoint
    atCall,                 \* the layers and the cursor as they were when
                            \* updateCheckpointStatistics was last entered
    args,                   \* the arguments of the BaseNet.__init__ under way
    attrs,                  \* attribute of self -> the value __init__ gave it
    initLine,               \* the statement of __init__ to run next, 0 if none
    actQuant,               \* a stand-alone ActQuant unit: its attributes, <<>>
                            \* before it is constructed
    network,                \* the cells and the alphas Network.__init__ built,
                            \* <<>> where they are not followed
    forwardPass,            \* Network.forward: where it stands, s0, s1 and the
                            \* calls of the cells made so far
    statistics_queue,       \* the queue handed to calcStatistics: how many batches
                            \* it holds, or that it never ends
    calc,                   \* calcStatistics: where it stands, the batches drawn
                            \* from the queue and the forward passes made
    unitForward,            \* layer index -> what the forward attribute of the
                            \* layer's ActQuant units is bound to, "none" for a
                            \* layer without such units
    layerAlphas,            \* layer index -> the tensor object its alphas
                            \* attribute is bound to
    tensorData,             \* tensor object -> the values it holds
    alphasState,            \* what save_alphas_state() returned, <<>> before
    alphasAtSave,           \* the values of the layers' alphas when
                            \* save_alphas_state() was called
    optimalModel,           \* OptimalModel.train(): where it stands, the
                            \* statements run, the batches of its queue and
                            \* the flag of the optimal checkpoint on entry
    lastCheckpoint,         \* the checkpoint save_checkpoint returned
    lastFile,               \* the file at lastPath, <<>> before it is written
    grid                    \* Statistics.__findGrid: nPlots, where the call
                            \* stands, the next nRows of its loop and its
                            \* locals nRowsOpt, nColsOpt and optDiff

\* the state of staging: cursor, layers, parameters, hooks
stagingVars == <<cls, nLayers, nLayersQuantCompleted, layersList, requires_grad,
                 learnable_params, hookFlag, hooksList, training, pc,
                 nLayersQuantCompletedOrg, switchCalls>>

\* the state of the operation selection, read by the bit-operations count
bopsVars == <<bitwidths, withReLU, curr_alpha_idx, baselineBops, evaluations,
              getBopsCalls>>

\* the state no staging operation touches
\* the bookkeeping of the quantize/restore round trip
weightVars == <<floatWeights, repetitions>>

\* the state of loading a pre-trained checkpoint
loadVars == <<loadArgs, loadCalls, loadedBy, loggerRows, infoTable>>

\* the state of a checkpoint whose statistics are brought up to date
checkpointState == <<optCheckpoint, savedFile, statisticsRuns>>

\* the checkpoint and the record of the call made on it
ckptVars == <<checkpointState, atCall>>

\* the state only the specifications further down follow
\* the state of a construction under way
ctorVars == <<args, attrs, initLine>>

\* the state of a stand-alone activation-quantization unit
unitVars == <<actQuant>>

\* the state of the search network's cells
searchVars == <<network, forwardPass>>

\* the state of calcStatistics
calcVars == <<statistics_queue, calc, unitForward>>

\* the alphas of the layers, followed by value
alphaVars == <<layerAlphas, tensorData, alphasState, alphasAtSave>>

\* the state of OptimalModel.train()
trainVars == <<optimalModel, lastCheckpoint, lastFile>>

\* the state of Statistics.__findGrid
gridVars == <<grid>>

otherVars == <<ckptVars, ctorVars, unitVars, searchVars, calcVars, alphaVars, trainVars, gridVars>>

\* all of it but the checkpoint
exceptCkpt == <<bopsVars, weightVars, loadVars, ctorVars, unitVars, searchVars, calcVars, alphaVars, trainVars, gridVars>>

\* all of it but the construction
exceptCtor == <<bopsVars, weightVars, loadVars, ckptVars, unitVars, searchVars, calcVars, alphaVars, trainVars, gridVars>>

\* all of it but the unit
exceptUnit == <<bopsVars, weightVars, loadVars, ckptVars, ctorVars, searchVars, calcVars, alphaVars, trainVars, gridVars>>

\* all of it but the cells
exceptSearch == <<bopsVars, weightVars, loadVars, ckptVars, ctorVars, unitVars, calcVars, alphaVars, trainVars, gridVars>>

\* all of it but calcStatistics
exceptCalc == <<bopsVars, weightVars, loadVars, ckptVars, ctorVars, unitVars, searchVars, alphaVars, trainVars, gridVars>>

\* all of it but the alphas
exceptAlphas == <<bopsVars, weightVars, loadVars, ckptVars, ctorVars, unitVars, searchVars, calcVars, trainVars, gridVars>>

\* all of it but OptimalModel.train()
exceptTrain == <<bopsVars, weightVars, loadVars, ckptVars, ctorVars, unitVars, searchVars, calcVars, alphaVars, gridVars>>

\* all of it but the checkpoint and OptimalModel.train()
exceptOptimal == <<bopsVars, weightVars, loadVars, ctorVars, unitVars, searchVars, calcVars, alphaVars, gridVars>>

\* all of it but __findGrid
exceptGrid == <<bopsVars, weightVars, loadVars, ckptVars, ctorVars, unitVars, searchVars, calcVars, alphaVars, trainVars>>

aux == <<bopsVars, weightVars, loadVars, otherVars>>

vars == <<stagingVars, lastCall, raised, returned, aux>>

LayerIdx == 0 .. (nLayers - 1)

\* Parameters of the model.  <<"conv", i>> stands for the parameters of the
\* Conv2d modules inside the quantizable candidate operations of layer i;
\* the stem and the classifier hold parameters outside every layer.
stem == <<"stem", 0>>

classifier == <<"classifier", 0>>

conv(i) == <<"conv", i>>

Parameters(n) == {stem, classifier} \cup {conv(i) : i \in 0 .. (n - 1)}

\* ActQuant.__init__: both staging flags default to False
ActQuantInit == [quatize_during_training |-> FALSE, noise_during_training |-> FALSE]

\* A mixed layer as constructed: not quantized, no noise, float weights.
\* weights tells what the weight tensors of the layer's operations hold:
\* "float" (the trained full-precision weights), "quantized" or "noisy".
FreeLayer ==
    [quatize_during_training |-> ActQuantInit.quatize_during_training,
     noise_during_training   |-> ActQuantInit.noise_during_training,
     quantized   |-> FALSE,
     added_noise |-> FALSE,
     weights     |-> "float"]

\* MixedLayer.turnOnNoise / turnOffNoise
turnOnNoise(layer) == [layer EXCEPT !.added_noise = TRUE]

turnOffNoise(layer) == [layer EXCEPT !.added_noise = FALSE]

\* Network.__init__: cursor 0, every parameter trainable, learnable_params
\* collected from parameters() before parameters is rebound.
NetworkInit(n) ==
    /\ cls = "Network"
    /\ nLayers = n
    /\ nLayersQuantCompleted = 0
    /\ layersList = [i \in 0 .. (n - 1) |-> FreeLayer]
    /\ requires_grad = [p \in Parameters(n) |-> TRUE]
    /\ learnable_params = {p \in Parameters(n) : requires_grad[p]}

\* BaseNet.__init__: cursor 0, hooksList empty, hookFlag False.  The first
\* layer is the active one and carries the noise.
BaseNetInit(n) ==
    /\ cls = "BaseNet"
    /\ nLayers = n
    /\ nLayersQuantCompleted = 0
    /\ layersList = [i \in 0 .. (n - 1) |->
                        IF i = 0 THEN turnOnNoise(FreeLayer) ELSE FreeLayer]
    /\ requires_grad = [p \in Parameters(n) |-> TRUE]
    /\ learnable_params = {p \in Parameters(n) : requires_grad[p]}

\* the rest of a freshly constructed model: no hooks, training mode, nothing
\* called yet
Constructed ==
    /\ hookFlag = FALSE
    /\ hooksList = 0
    /\ training = TRUE
    /\ pc = "idle"
    /\ nLayersQuantCompletedOrg = 0
    /\ switchCalls = 0
    /\ lastCall = "init"
    /\ raised = "none"
    /\ returned = "None"

\* the operation selection left out of the picture: no layer offers a choice
NoSelection ==
    /\ bitwidths = <<>>
    /\ withReLU = <<>>
    /\ curr_alpha_idx = <<>>
    /\ baselineBops = <<>>
    /\ evaluations = <<>>
    /\ getBopsCalls = <<>>

\* the weights are followed by what they hold only, not by their values
NoValues ==
    /\ floatWeights = <<>>
    /\ repetitions = 0

\* no checkpoint has been loaded
NothingLoaded ==
    /\ loadArgs = <<>>
    /\ loadCalls = <<>>
    /\ loadedBy = "nothing"
    /\ loggerRows = <<>>
    /\ infoTable = <<>>

\* the caller holds no checkpoint
NoCheckpoint ==
    /\ optCheckpoint = <<>>
    /\ savedFile = <<>>
    /\ statisticsRuns = 0
    /\ atCall = <<>>

\* no construction is under way
NotConstructing ==
    /\ args = <<>>
    /\ attrs = <<>>
    /\ initLine = 0

\* no stand-alone unit has been constructed
NoUnit == actQuant = <<>>

\* no model has been constructed
NoModel ==
    /\ cls = "none"
    /\ nLayers = 0
    /\ nLayersQuantCompleted = 0
    /\ layersList = <<>>
    /\ requires_grad = <<>>
    /\ learnable_params = {}

\* the structure of the cells is not followed
NoCells ==
    /\ network = <<>>
    /\ forwardPass = <<>>

\* calcStatistics is not followed
NoCalc ==
    /\ statistics_queue = <<>>
    /\ calc = <<>>
    /\ unitForward = <<>>

\* the alphas are not followed
NoAlphas ==
    /\ layerAlphas = <<>>
    /\ tensorData = <<>>
    /\ alphasState = <<>>
    /\ alphasAtSave = <<>>

\* OptimalModel.train() is not followed
NoRegime ==
    /\ optimalModel = <<>>
    /\ lastCheckpoint = <<>>
    /\ lastFile = <<>>

\* __findGrid is not followed
NoGrid ==
    grid = <<>>

NothingElse == NoCheckpoint /\ NotConstructing /\ NoUnit /\ NoCells /\ NoCalc /\ NoAlphas /\ NoRegime /\ NoGrid

Init ==
    /\ \E n \in 1 .. MaxLayers : NetworkInit(n) \/ BaseNetInit(n)
    /\ Constructed
    /\ NoSelection
    /\ NoValues
    /\ NothingLoaded
    /\ NothingElse

\* ----------------------------------------------------------------- Network

\* the state no operation of Network touches
hookState == <<hookFlag, hooksList, training, pc, nLayersQuantCompletedOrg>>

\* FreezeConv with the loop run over every cell instead of the cell under
\* the cursor
FreezeConv_all(rg, i) ==
    [p \in DOMAIN rg |-> IF p[1] = "conv" THEN FALSE ELSE rg[p]]

\* FreezeConv assigning requires_grad = (the parameter is not of cell i) to
\* every convolution, which turns the earlier cells back on
FreezeConv_resets(rg, i) ==
    [p \in DOMAIN rg |-> IF p[1] = "conv" THEN p # conv(i) ELSE rg[p]]

\* switch_stage, lines 156-166: every Conv2d parameter of the cell's
\* quantizable operations stops receiving gradients
FreezeConv(rg, i) == [rg EXCEPT ![conv(i)] = FALSE]

\* switch_stage, lines 163-166: the cell's ActQuant units are flipped
StageActQuant(layer) ==
    [layer EXCEPT !.quatize_during_training = TRUE,
                  !.noise_during_training = FALSE]

\* LearnableParams without the requires_grad filter
LearnableParams_stale(old, rg) == old

\* switch_stage, line 169: parameters() is getLearnableParams() since
\* __init__ rebound it, so the new list is the old list filtered
LearnableParams(old, rg) == {p \in old : rg[p]}

\* HasCell off by one
HasCell_offByOne(i, n) == i <= n

\* switch_stage, line 151: self.cells[i] exists for 0 <= i < len(self.cells)
HasCell(i, n) == i < n

\* Network.switch_stage.  self.cells[self.nLayersQuantCompleted] raises
\* IndexError once the cursor has reached len(self.cells); nothing has been
\* changed at that point.
switch_stage ==
    /\ cls = "Network"
    /\ pc = "idle"
    /\ switchCalls < nLayers + MaxExtraCalls
    /\ switchCalls' = switchCalls + 1
    /\ lastCall' = "switch_stage"
    /\ UNCHANGED aux
    /\ returned' = "None"
    /\ IF ~HasCell(nLayersQuantCompleted, nLayers)
       THEN /\ raised' = "IndexError"
            /\ UNCHANGED <<nLayersQuantCompleted, layersList, requires_grad,
                           learnable_params>>
       ELSE /\ raised' = "none"
            /\ requires_grad' = FreezeConv(requires_grad, nLayersQuantCompleted)
            /\ layersList' = [layersList EXCEPT
                                ![nLayersQuantCompleted] = StageActQuant(@)]
            /\ learnable_params' = LearnableParams(learnable_params, requires_grad')
            /\ nLayersQuantCompleted' = nLayersQuantCompleted + 1
    /\ UNCHANGED <<cls, nLayers, hookState>>

\* ActQuant.update_stage on the activation-quantization units of cell i of a
\* Network, the class whose switch_stage() writes the same two attributes
update_stage(i, q, n) ==
    /\ cls = "Network"
    /\ pc = "idle"
    /\ lastCall' = "update_stage"
    /\ UNCHANGED aux
    /\ returned' = "None"
    /\ raised' = "none"
    /\ layersList' = [layersList EXCEPT
                        ![i] = [@ EXCEPT !.quatize_during_training = q,
                                         !.noise_during_training = n]]
    /\ UNCHANGED <<cls, nLayers, nLayersQuantCompleted, requires_grad,
                   learnable_params, hookState, switchCalls>>

\* ----------------------------------------------------------------- BaseNet

\* the state of the parameters, which only switch_stage() changes
paramState == <<requires_grad, learnable_params, switchCalls>>

\* A layer record may carry, next to what its weights hold, the weight
\* itself (value) and the copy the operation saved of it (backup).
TracksValues(layer) == "value" \in DOMAIN layer

\* the quantized representation of a weight: the grid point below it
QuantizeValue(v) == (v \div 2) * 2

\* the weights of the layer are saved, then overwritten in place
Overwrite(layer, holds, v) ==
    IF TracksValues(layer)
    THEN [layer EXCEPT !.weights = holds, !.backup = layer.value, !.value = v]
    ELSE [layer EXCEPT !.weights = holds]

\* Operation.quantizeFunc: the float weights are replaced by their quantized
\* representation.  Quantizing weights that are not the float weights (a
\* second quantize with no restore in between) fails fast.
quantizeFunc(layer) ==
    IF layer.weights = "float"
    THEN [layer |-> Overwrite(layer, "quantized",
                              IF TracksValues(layer) THEN QuantizeValue(layer.value)
                              ELSE 0),
          err |-> "none"]
    ELSE [layer |-> layer, err |-> "quantize without restore"]

\* Operation.restore_state: back to the float weights held before
\* quantization or noise, which are the saved copy
restore_state(layer) ==
    IF TracksValues(layer) /\ layer.weights # "float"
    THEN [layer EXCEPT !.weights = "float", !.value = layer.backup]
    ELSE [layer EXCEPT !.weights = "float"]

\* Operation.add_noise: the weights are perturbed in place
add_noise(layer) ==
    Overwrite(layer, "noisy", IF TracksValues(layer) THEN layer.value + 1 ELSE 0)

\* MixedLayer.quantize: quantizes every operation of the layer and sets the
\* layer's quantized flag; fails fast on a layer that is quantized already
quantize(layer) ==
    IF layer.quantized
    THEN [layer |-> layer, err |-> "quantize without restore"]
    ELSE LET r == quantizeFunc(layer)
         IN  IF r.err # "none" THEN r
             ELSE [layer |-> [r.layer EXCEPT !.quantized = TRUE], err |-> "none"]

\* MixedLayer.unQuantize: restores the float weights, clears the flag
unQuantize(layer) == [restore_state(layer) EXCEPT !.quantized = FALSE]

\* RestoreQuantizationFrom stopping one layer short of the cursor
RECURSIVE RestoreQuantizationFrom_short(_, _, _)
RestoreQuantizationFrom_short(ls, i, cursor) ==
    IF i >= cursor - 1 THEN [ls |-> ls, err |-> "none"]
    ELSE IF ~ls[i].quantized
         THEN [ls |-> ls, err |-> "assert layer.quantized is True"]
         ELSE LET r == quantizeFunc(ls[i])
              IN  IF r.err # "none" THEN [ls |-> ls, err |-> r.err]
                  ELSE RestoreQuantizationFrom_short([ls EXCEPT ![i] = r.layer],
                                                     i + 1, cursor)

\* BaseNet.restoreQuantizationForStagedLayers on layers i .. cursor-1, in
\* order; stops at the first failing assertion and keeps what was done
RECURSIVE RestoreQuantizationFrom(_, _, _)
RestoreQuantizationFrom(ls, i, cursor) ==
    IF i >= cursor THEN [ls |-> ls, err |-> "none"]
    ELSE IF ~ls[i].quantized
         THEN [ls |-> ls, err |-> "assert layer.quantized is True"]
         ELSE LET r == quantizeFunc(ls[i])
              IN  IF r.err # "none" THEN [ls |-> ls, err |-> r.err]
                  ELSE RestoreQuantizationFrom([ls EXCEPT ![i] = r.layer],
                                               i + 1, cursor)

\* BaseNet.removeQuantizationFromStagedLayers on layers i .. cursor-1
RECURSIVE RemoveQuantizationFrom(_, _, _)
RemoveQuantizationFrom(ls, i, cursor) ==
    IF i >= cursor THEN [ls |-> ls, err |-> "none"]
    ELSE IF ~ls[i].quantized
         THEN [ls |-> ls, err |-> "assert layer.quantized is True"]
         ELSE RemoveQuantizationFrom([ls EXCEPT ![i] = restore_state(@)],
                                     i + 1, cursor)

\* isQuantized looking at the flags only, not at the weights
RECURSIVE isQuantized_flagsOnly(_, _, _)
isQuantized_flagsOnly(ls, i, n) ==
    IF i >= n THEN "none"
    ELSE IF ~ls[i].quantized THEN "assert layer.quantized is True"
    ELSE IF ls[i].added_noise THEN "assert layer.added_noise is False"
    ELSE isQuantized_flagsOnly(ls, i + 1, n)

\* BaseNet.isQuantized over layers i .. n-1: the first assertion that fails,
\* "none" when the method returns True.  check_quantization counts the
\* distinct weight values, which stay within 2^bitwidth for quantized
\* weights only.
RECURSIVE isQuantized(_, _, _)
isQuantized(ls, i, n) ==
    IF i >= n THEN "none"
    ELSE IF ~ls[i].quantized THEN "assert layer.quantized is True"
    ELSE IF ls[i].added_noise THEN "assert layer.added_noise is False"
    ELSE IF ls[i].weights # "quantized" THEN "assert check_quantization"
    ELSE isQuantized(ls, i + 1, n)

\* QuantizeFrom passing over the layers that are quantized already
RECURSIVE QuantizeFrom_skipsQuantized(_, _, _)
QuantizeFrom_skipsQuantized(ls, i, n) ==
    IF i >= n THEN [ls |-> ls, err |-> "none"]
    ELSE IF ls[i].quantized THEN QuantizeFrom_skipsQuantized(ls, i + 1, n)
    ELSE LET r == quantize(ls[i])
         IN  IF r.err # "none" THEN [ls |-> ls, err |-> r.err]
             ELSE QuantizeFrom_skipsQuantized([ls EXCEPT ![i] = r.layer], i + 1, n)

\* the loop of quantizeUnstagedLayers, lines 396-398, over layers i .. n-1
RECURSIVE QuantizeFrom(_, _, _)
QuantizeFrom(ls, i, n) ==
    IF i >= n THEN [ls |-> ls, err |-> "none"]
    ELSE LET r == quantize(ls[i])
         IN  IF r.err # "none" THEN [ls |-> ls, err |-> r.err]
             ELSE QuantizeFrom([ls EXCEPT ![i] = r.layer], i + 1, n)

\* QuantizeUnstaged without line 392: the noise of the active layer stays on
QuantizeUnstaged_keepsNoise(ls, cursor, n) ==
    LET r == IF cursor < n THEN QuantizeFrom(ls, cursor, n)
             ELSE [ls |-> ls, err |-> "none"]
    IN  IF r.err # "none" THEN r
        ELSE [ls |-> r.ls, err |-> isQuantized(r.ls, 0, n)]

\* BaseNet.quantizeUnstagedLayers as a function of the layers and the cursor
QuantizeUnstaged(ls, cursor, n) ==
    LET r == IF cursor < n
             THEN QuantizeFrom([ls EXCEPT ![cursor] = turnOffNoise(@)], cursor, n)
             ELSE [ls |-> ls, err |-> "none"]
    IN  IF r.err # "none" THEN r
        ELSE [ls |-> r.ls, err |-> isQuantized(r.ls, 0, n)]

\* the loop of unQuantizeUnstagedLayers, lines 405-407, over layers i .. n-1
RECURSIVE UnQuantizeFrom(_, _, _)
UnQuantizeFrom(ls, i, n) ==
    IF i >= n THEN ls
    ELSE UnQuantizeFrom([ls EXCEPT ![i] = unQuantize(@)], i + 1, n)

\* UnQuantizeUnstaged without lines 408-410: the noise stays off
UnQuantizeUnstaged_noNoise(ls, cursor, n) ==
    IF cursor < n THEN UnQuantizeFrom(ls, cursor, n) ELSE ls

\* BaseNet.unQuantizeUnstagedLayers as a function of the layers and the
\* cursor: every unstaged layer is un-quantized, then the noise of the
\* active layer is turned back on
UnQuantizeUnstaged(ls, cursor, n) ==
    IF cursor < n
    THEN [UnQuantizeFrom(ls, cursor, n) EXCEPT ![cursor] = turnOnNoise(@)]
    ELSE ls

\* PreForward without the assertion of line 24
PreForward_unguarded(flag, ls, cursor, n, train) ==
    IF ~train
    THEN [hookFlag |-> TRUE, ls |-> ls, err |-> "assert training is True"]
    ELSE LET r == RestoreQuantizationFrom(ls, 0, cursor)
         IN  IF r.err # "none"
             THEN [hookFlag |-> TRUE, ls |-> r.ls, err |-> r.err]
             ELSE IF cursor >= n
             THEN [hookFlag |-> TRUE, ls |-> r.ls, err |-> "none"]
             ELSE IF ~r.ls[cursor].added_noise
             THEN [hookFlag |-> TRUE, ls |-> r.ls,
                   err |-> "assert layer.added_noise is True"]
             ELSE [hookFlag |-> TRUE,
                   ls |-> [r.ls EXCEPT ![cursor] = add_noise(@)],
                   err |-> "none"]

\* PreForward without line 29: the staged layers are not quantized
PreForward_noQuantize(flag, ls, cursor, n, train) ==
    IF flag # FALSE
    THEN [hookFlag |-> flag, ls |-> ls, err |-> "assert hookFlag is False"]
    ELSE IF ~train
    THEN [hookFlag |-> TRUE, ls |-> ls, err |-> "assert training is True"]
    ELSE IF cursor >= n
    THEN [hookFlag |-> TRUE, ls |-> ls, err |-> "none"]
    ELSE IF ~ls[cursor].added_noise
    THEN [hookFlag |-> TRUE, ls |-> ls,
          err |-> "assert layer.added_noise is True"]
    ELSE [hookFlag |-> TRUE,
          ls |-> [ls EXCEPT ![cursor] = add_noise(@)],
          err |-> "none"]

\* PreForward without the assertion on layer.added_noise
PreForward_noNoiseCheck(flag, ls, cursor, n, train) ==
    IF flag # FALSE
    THEN [hookFlag |-> flag, ls |-> ls, err |-> "assert hookFlag is False"]
    ELSE IF ~train
    THEN [hookFlag |-> TRUE, ls |-> ls, err |-> "assert training is True"]
    ELSE LET r == RestoreQuantizationFrom(ls, 0, cursor)
         IN  IF r.err # "none"
             THEN [hookFlag |-> TRUE, ls |-> r.ls, err |-> r.err]
             ELSE IF cursor >= n
             THEN [hookFlag |-> TRUE, ls |-> r.ls, err |-> "none"]
             ELSE [hookFlag |-> TRUE,
                   ls |-> [r.ls EXCEPT ![cursor] = add_noise(@)],
                   err |-> "none"]

\* preForward as a function of the model: the hook flag, the layers and
\* what was raised.  The flag is set before the later assertions run, so a
\* failure after line 25 leaves it set.
PreForward(flag, ls, cursor, n, train) ==
    IF flag # FALSE
    THEN [hookFlag |-> flag, ls |-> ls, err |-> "assert hookFlag is False"]
    ELSE IF ~train
    THEN [hookFlag |-> TRUE, ls |-> ls, err |-> "assert training is True"]
    ELSE LET r == RestoreQuantizationFrom(ls, 0, cursor)
         IN  IF r.err # "none"
             THEN [hookFlag |-> TRUE, ls |-> r.ls, err |-> r.err]
             ELSE IF cursor >= n
             THEN [hookFlag |-> TRUE, ls |-> r.ls, err |-> "none"]
             ELSE IF ~r.ls[cursor].added_noise
             THEN [hookFlag |-> TRUE, ls |-> r.ls,
                   err |-> "assert layer.added_noise is True"]
             ELSE [hookFlag |-> TRUE,
                   ls |-> [r.ls EXCEPT ![cursor] = add_noise(@)],
                   err |-> "none"]

\* PostForward without line 42: the flag stays set
PostForward_keepsFlag(flag, ls, cursor, n, train) ==
    IF flag # TRUE
    THEN [hookFlag |-> flag, ls |-> ls, err |-> "assert hookFlag is True"]
    ELSE IF ~train
    THEN [hookFlag |-> flag, ls |-> ls, err |-> "assert training is True"]
    ELSE LET r == RemoveQuantizationFrom(ls, 0, cursor)
         IN  IF r.err # "none"
             THEN [hookFlag |-> flag, ls |-> r.ls, err |-> r.err]
             ELSE IF cursor >= n
             THEN [hookFlag |-> flag, ls |-> r.ls, err |-> "none"]
             ELSE IF ~r.ls[cursor].added_noise
             THEN [hookFlag |-> flag, ls |-> r.ls,
                   err |-> "assert layer.added_noise is True"]
             ELSE [hookFlag |-> flag,
                   ls |-> [r.ls EXCEPT ![cursor] = restore_state(@)],
                   err |-> "none"]

\* postForward as a function of the model
PostForward(flag, ls, cursor, n, train) ==
    IF flag # TRUE
    THEN [hookFlag |-> flag, ls |-> ls, err |-> "assert hookFlag is True"]
    ELSE IF ~train
    THEN [hookFlag |-> FALSE, ls |-> ls, err |-> "assert training is True"]
    ELSE LET r == RemoveQuantizationFrom(ls, 0, cursor)
         IN  IF r.err # "none"
             THEN [hookFlag |-> FALSE, ls |-> r.ls, err |-> r.err]
             ELSE IF cursor >= n
             THEN [hookFlag |-> FALSE, ls |-> r.ls, err |-> "none"]
             ELSE IF ~r.ls[cursor].added_noise
             THEN [hookFlag |-> FALSE, ls |-> r.ls,
                   err |-> "assert layer.added_noise is True"]
             ELSE [hookFlag |-> FALSE,
                   ls |-> [r.ls EXCEPT ![cursor] = restore_state(@)],
                   err |-> "none"]

\* the pre-forward hook; a forward pass is in progress once it has returned
preForward ==
    /\ cls = "BaseNet"
    /\ pc \in {"idle", "forward"}
    /\ LET r == PreForward(hookFlag, layersList, nLayersQuantCompleted,
                           nLayers, training)
       IN  /\ hookFlag' = r.hookFlag
           /\ layersList' = r.ls
           /\ raised' = r.err
           /\ pc' = IF r.err = "none" THEN "forward" ELSE pc
    /\ lastCall' = "preForward"
    /\ UNCHANGED aux
    /\ returned' = "None"
    /\ UNCHANGED <<cls, nLayers, nLayersQuantCompleted, hooksList, training,
                   nLayersQuantCompletedOrg, paramState>>

\* the post-forward hook; it ends the forward pass
postForward ==
    /\ cls = "BaseNet"
    /\ pc \in {"idle", "forward"}
    /\ LET r == PostForward(hookFlag, layersList, nLayersQuantCompleted,
                            nLayers, training)
       IN  /\ hookFlag' = r.hookFlag
           /\ layersList' = r.ls
           /\ raised' = r.err
    /\ pc' = "idle"
    /\ lastCall' = "postForward"
    /\ UNCHANGED aux
    /\ returned' = "None"
    /\ UNCHANGED <<cls, nLayers, nLayersQuantCompleted, hooksList, training,
                   nLayersQuantCompletedOrg, paramState>>

removeQuantizationFromStagedLayers ==
    /\ cls = "BaseNet"
    /\ pc = "idle"
    /\ LET r == RemoveQuantizationFrom(layersList, 0, nLayersQuantCompleted)
       IN  /\ layersList' = r.ls
           /\ raised' = r.err
    /\ lastCall' = "removeQuantizationFromStagedLayers"
    /\ UNCHANGED aux
    /\ returned' = "None"
    /\ UNCHANGED <<cls, nLayers, nLayersQuantCompleted, hookState, paramState>>

restoreQuantizationForStagedLayers ==
    /\ cls = "BaseNet"
    /\ pc = "idle"
    /\ LET r == RestoreQuantizationFrom(layersList, 0, nLayersQuantCompleted)
       IN  /\ layersList' = r.ls
           /\ raised' = r.err
    /\ lastCall' = "restoreQuantizationForStagedLayers"
    /\ UNCHANGED aux
    /\ returned' = "None"
    /\ UNCHANGED <<cls, nLayers, nLayersQuantCompleted, hookState, paramState>>

quantizeUnstagedLayers ==
    /\ cls = "BaseNet"
    /\ pc = "idle"
    /\ LET r == QuantizeUnstaged(layersList, nLayersQuantCompleted, nLayers)
       IN  /\ layersList' = r.ls
           /\ raised' = r.err
    /\ lastCall' = "quantizeUnstagedLayers"
    /\ UNCHANGED aux
    /\ returned' = "None"
    /\ UNCHANGED <<cls, nLayers, nLayersQuantCompleted, hookState, paramState>>

unQuantizeUnstagedLayers ==
    /\ cls = "BaseNet"
    /\ pc = "idle"
    /\ layersList' = UnQuantizeUnstaged(layersList, nLayersQuantCompleted, nLayers)
    /\ raised' = "none"
    /\ lastCall' = "unQuantizeUnstagedLayers"
    /\ UNCHANGED aux
    /\ returned' = "None"
    /\ UNCHANGED <<cls, nLayers, nLayersQuantCompleted, hookState, paramState>>

\* BaseNet.isQuantized(), called on its own: True, or a failed assertion
callIsQuantized ==
    /\ cls = "BaseNet"
    /\ pc = "idle"
    /\ raised' = isQuantized(layersList, 0, nLayers)
    /\ returned' = (IF raised' = "none" THEN "True" ELSE "None")
    /\ lastCall' = "isQuantized"
    /\ UNCHANGED aux
    /\ UNCHANGED <<cls, nLayers, nLayersQuantCompleted, layersList, hookState,
                   paramState>>

\* switch_stage() of a BaseNet subclass at cursor < nLayers: the active
\* layer loses its noise and is quantized for good, its ActQuant units are
\* flipped, and the next layer, if any, becomes the active noisy one
CommitLayer(ls, cursor, n) ==
    LET r == quantize(turnOffNoise(ls[cursor]))
        committed == [ls EXCEPT ![cursor] = StageActQuant(r.layer)]
    IN  IF r.err # "none" THEN [ls |-> ls, err |-> r.err]
        ELSE [ls |-> IF cursor + 1 < n
                     THEN [committed EXCEPT ![cursor + 1] = turnOnNoise(@)]
                     ELSE committed,
              err |-> "none"]

\* switch_stage() of a BaseNet subclass: commits the active layer, freezes
\* its convolutions, recomputes the learnable parameters and advances the
\* cursor; a call with the cursor at the last layer changes nothing
BaseNet_switch_stage ==
    /\ cls = "BaseNet"
    /\ pc = "idle"
    /\ switchCalls < nLayers + MaxExtraCalls
    /\ switchCalls' = switchCalls + 1
    /\ lastCall' = "switch_stage"
    /\ UNCHANGED aux
    /\ returned' = "None"
    /\ IF nLayersQuantCompleted >= nLayers
       THEN /\ raised' = "none"
            /\ UNCHANGED <<nLayersQuantCompleted, layersList, requires_grad,
                           learnable_params>>
       ELSE LET r == CommitLayer(layersList, nLayersQuantCompleted, nLayers)
            IN  /\ raised' = r.err
                /\ layersList' = r.ls
                /\ IF r.err # "none"
                   THEN UNCHANGED <<nLayersQuantCompleted, requires_grad,
                                    learnable_params>>
                   ELSE /\ requires_grad' =
                              FreezeConv(requires_grad, nLayersQuantCompleted)
                        /\ learnable_params' =
                              {p \in Parameters(nLayers) : requires_grad'[p]}
                        /\ nLayersQuantCompleted' = nLayersQuantCompleted + 1
    /\ UNCHANGED <<cls, nLayers, hookState>>

\* updateCheckpointStatistics, line 227: the cursor while statistics are taken
CursorForStatistics(n) == n

\* RestoreCursor resetting the cursor instead of restoring it
RestoreCursor_zero(org) == 0

\* updateCheckpointStatistics, line 238: the cursor after the call
RestoreCursor(org) == org

\* checkpoint['updated_statistics'] as the caller may pass it
UpdatedStatistics == {"absent", "False", "True"}

\* NeedToUpdate taking only a checkpoint without the entry as out of date
NeedToUpdate_absentOnly(updated_statistics) == updated_statistics = "absent"

\* updateCheckpointStatistics, line 221: needToUpdate
NeedToUpdate(updated_statistics) == updated_statistics # "True"

\* updateCheckpointStatistics, lines 221-227 and 240: returns at once when
\* the checkpoint is up to date; otherwise quantizes the unstaged layers,
\* saves the cursor and moves it to the last layer
EnterUpdate(updated_statistics) ==
    /\ cls = "BaseNet"
    /\ pc = "idle"
    /\ lastCall' = "updateCheckpointStatistics"
    /\ IF ~NeedToUpdate(updated_statistics)
       THEN /\ raised' = "none"
            /\ returned' = "False"
            /\ UNCHANGED <<layersList, nLayersQuantCompleted,
                           nLayersQuantCompletedOrg, pc>>
       ELSE LET r == QuantizeUnstaged(layersList, nLayersQuantCompleted, nLayers)
            IN  /\ layersList' = r.ls
                /\ raised' = r.err
                /\ returned' = "None"
                /\ IF r.err # "none"
                   THEN UNCHANGED <<nLayersQuantCompleted,
                                    nLayersQuantCompletedOrg, pc>>
                   ELSE /\ nLayersQuantCompletedOrg' = nLayersQuantCompleted
                        /\ nLayersQuantCompleted' = CursorForStatistics(nLayers)
                        /\ pc' = "ucs"
    /\ UNCHANGED <<cls, nLayers, hookFlag, hooksList, training, paramState>>

\* BaseNet.updateCheckpointStatistics(checkpoint, path, statistics_queue),
\* up to line 227, on a checkpoint the caller passes
updateCheckpointStatistics(updated_statistics) ==
    /\ EnterUpdate(updated_statistics)
    /\ UNCHANGED aux

\* what the weight tensors hold in a checkpoint's state_dict
CheckpointWeights == {"float", "quantized"}

\* updateCheckpointStatistics, lines 229-238: load_state_dict (which raises
\* when the state dict does not fit the model), calcStatistics (which puts
\* the model in evaluation mode and runs one forward pass per batch, through
\* the pre-forward hook when the hooks are registered), the save and the
\* restore of the cursor.  An exception leaves the cursor where line 227 put it.
FinishUpdate(fits, loaded, batches) ==
    /\ cls = "BaseNet"
    /\ pc = "ucs"
    /\ pc' = "idle"
    /\ lastCall' = "updateCheckpointStatistics"
    /\ IF ~fits
       THEN /\ raised' = "load_state_dict"
            /\ returned' = "None"
            /\ UNCHANGED <<layersList, training, hookFlag, nLayersQuantCompleted>>
       ELSE LET ls == [i \in LayerIdx |-> [layersList[i] EXCEPT !.weights = loaded]]
                r == PreForward(hookFlag, ls, nLayersQuantCompleted, nLayers, FALSE)
            IN  /\ training' = FALSE
                /\ IF batches > 0 /\ hooksList > 0
                   THEN /\ hookFlag' = r.hookFlag
                        /\ layersList' = r.ls
                        /\ raised' = r.err
                        /\ returned' = "None"
                        /\ UNCHANGED nLayersQuantCompleted
                   ELSE /\ layersList' = ls
                        /\ raised' = "none"
                        /\ returned' = "True"
                        /\ nLayersQuantCompleted' =
                              RestoreCursor(nLayersQuantCompletedOrg)
                        /\ UNCHANGED hookFlag
    /\ UNCHANGED <<cls, nLayers, hooksList, nLayersQuantCompletedOrg, paramState>>

\* BaseNet.updateCheckpointStatistics from line 229 on, on a checkpoint the
\* caller passes
updateCheckpointStatisticsFinish(fits, loaded, batches) ==
    /\ FinishUpdate(fits, loaded, batches)
    /\ UNCHANGED aux

\* BaseNet.setWeightsTrainingHooks: registers the pair of hooks
setWeightsTrainingHooks ==
    /\ cls = "BaseNet"
    /\ pc = "idle"
    /\ lastCall' = "setWeightsTrainingHooks"
    /\ UNCHANGED aux
    /\ returned' = "None"
    /\ IF hooksList # 0
       THEN raised' = "assert len(hooksList) == 0" /\ UNCHANGED hooksList
       ELSE raised' = "none" /\ hooksList' = 2
    /\ UNCHANGED <<cls, nLayers, nLayersQuantCompleted, layersList, hookFlag,
                   training, pc, nLayersQuantCompletedOrg, paramState>>

\* removeWeightsTrainingHooks without line 363: the handles are removed from
\* the module, the list keeps them
removeWeightsTrainingHooks_noClear ==
    /\ cls = "BaseNet"
    /\ pc = "idle"
    /\ lastCall' = "removeWeightsTrainingHooks"
    /\ UNCHANGED aux
    /\ returned' = "None"
    /\ raised' = "none"
    /\ UNCHANGED <<cls, nLayers, nLayersQuantCompleted, layersList, hookFlag,
                   hooksList, training, pc, nLayersQuantCompletedOrg,
                   paramState>>

\* BaseNet.removeWeightsTrainingHooks: removes every handle
removeWeightsTrainingHooks ==
    /\ cls = "BaseNet"
    /\ pc = "idle"
    /\ lastCall' = "removeWeightsTrainingHooks"
    /\ UNCHANGED aux
    /\ returned' = "None"
    /\ raised' = "none"
    /\ hooksList' = 0
    /\ UNCHANGED <<cls, nLayers, nLayersQuantCompleted, layersList, hookFlag,
                   training, pc, nLayersQuantCompletedOrg, paramState>>

\* Module.train(mode); eval() is train(False)
train(mode) ==
    /\ cls = "BaseNet"
    /\ pc = "idle"
    /\ lastCall' = "train"
    /\ UNCHANGED aux
    /\ returned' = "None"
    /\ raised' = "none"
    /\ training' = mode
    /\ UNCHANGED <<cls, nLayers, nLayersQuantCompleted, layersList, hookFlag,
                   hooksList, pc, nLayersQuantCompletedOrg, paramState>>

Next ==
    \/ switch_stage
    \/ \E i \in LayerIdx, q \in BOOLEAN, n \in BOOLEAN : update_stage(i, q, n)
    \/ preForward
    \/ postForward
    \/ removeQuantizationFromStagedLayers
    \/ restoreQuantizationForStagedLayers
    \/ quantizeUnstagedLayers
    \/ unQuantizeUnstagedLayers
    \/ callIsQuantized
    \/ BaseNet_switch_stage
    \/ \E u \in UpdatedStatistics : updateCheckpointStatistics(u)
    \/ \E fits \in BOOLEAN, loaded \in CheckpointWeights, batches \in 0 .. 1 :
          updateCheckpointStatisticsFinish(fits, loaded, batches)
    \/ setWeightsTrainingHooks
    \/ removeWeightsTrainingHooks
    \/ \E mode \in BOOLEAN : train(mode)

Spec == Init /\ [][Next]_vars

\* ------------------------------------------------- bit-operations (BaseNet)

\* largest number of mixed layers of a model whose bit-operations are counted
MaxMixedLayers == 2

\* BaseNet.__init__, line 59: bitwidth of the model's input
modelInputBitwidth == 8

\* BaseNet.__init__, line 60: feature maps of the model's input
modelInputnFeatureMaps == 3

\* countBopsDiscrete, line 72: the count is reported in units of 1E9
BopsUnit == 1000000000

\* ActQuant.__init__: the bitwidth of activations nobody quantizes
FullPrecision == 32

\* the activation bitwidth None of a bitwidth pair (weights, None)
None == 0

\* the filters of a mixed layer
Filters == 1 .. 2

\* layer.getAllBitwidths() of a layer of MixedConvWithReLU filters: pairs
\* (weight bitwidth, activation bitwidth)
BitwidthsWithReLU ==
    { <<<<2, 2>>>>, <<<<2, 2>>, <<4, 4>>>>, <<<<4, 4>>, <<2, 2>>>>,
      <<<<2, 4>>, <<4, 4>>>> }

\* layer.getAllBitwidths() of a layer of MixedConv filters: pairs
\* (weight bitwidth, None)
BitwidthsNoReLU == { <<<<2, None>>>>, <<<<2, None>>, <<4, None>>>> }

Has(list, b) == \E k \in 1 .. Len(list) : list[k] = b

\* Index counting the position of b from the end of the list
Index_fromEnd(list, b) ==
    CHOOSE k \in 1 .. Len(list) : list[Len(list) + 1 - k] = b

\* list.index(b): the first position of b (positions count from 1 here)
Index(list, b) ==
    CHOOSE k \in 1 .. Len(list) : list[k] = b /\ \A j \in 1 .. (k - 1) : list[j] # b

\* the operation filter f of layer l has selected
CurrentBitwidth(idx, l, f) == bitwidths[l][idx[l][f]]

RECURSIVE Sum(_)
Sum(s) == IF s = <<>> THEN 0 ELSE s[1] + Sum(Tail(s))

\* MixedLayer.getBops(input_bitwidth): every filter multiplies each input
\* feature map, of its bitwidth, by weights of the selected weight bitwidth
getBops(idx, l, input_bitwidth) ==
    Sum([f \in Filters |-> Sum(input_bitwidth) * CurrentBitwidth(idx, l, f)[1]])

\* MixedLayer.getCurrentOutputBitwidth(): one bitwidth per filter, the
\* activation bitwidth of the operation the filter has selected
getCurrentOutputBitwidth(idx, l) ==
    [f \in Filters |->
        IF CurrentBitwidth(idx, l, f)[2] = None THEN FullPrecision
        ELSE CurrentBitwidth(idx, l, f)[2]]

\* CountFrom handing every layer the bitwidth of the model's input
RECURSIVE CountFrom_noPropagation(_, _, _, _, _)
CountFrom_noPropagation(idx, l, input_bitwidth, totalBops, calls) ==
    IF l >= nLayers THEN [totalBops |-> totalBops, calls |-> calls]
    ELSE CountFrom_noPropagation(idx, l + 1, input_bitwidth,
                   totalBops + getBops(idx, l, input_bitwidth),
                   Append(calls, [layer |-> l, input_bitwidth |-> input_bitwidth]))

\* the loop of countBopsDiscrete, lines 68-70, from layer l on: the running
\* total and the calls of getBops made, each with the input it received
RECURSIVE CountFrom(_, _, _, _, _)
CountFrom(idx, l, input_bitwidth, totalBops, calls) ==
    IF l >= nLayers THEN [totalBops |-> totalBops, calls |-> calls]
    ELSE CountFrom(idx, l + 1, getCurrentOutputBitwidth(idx, l),
                   totalBops + getBops(idx, l, input_bitwidth),
                   Append(calls, [layer |-> l, input_bitwidth |-> input_bitwidth]))

\* BaseNet.countBopsDiscrete under the selection idx.  The quotient
\* totalBops / 1E9 is kept as the pair of its numerator and denominator.
countBopsDiscrete(idx) ==
    LET r == CountFrom(idx, 0,
                       [j \in 1 .. modelInputnFeatureMaps |-> modelInputBitwidth],
                       0, <<>>)
    IN  [bops  |-> [num |-> r.totalBops, den |-> BopsUnit],
         calls |-> r.calls]

\* applyOnBaseline, lines 436-448: every filter of layers l2 .. nLayers-1 is
\* pointed at the operation of bitwidth b, or, in a layer that lacks b, at
\* the operation of (b[0], None); list.index raises ValueError when the
\* layer has neither, and the layers before it stay re-pointed
RECURSIVE PointAt(_, _, _)
PointAt(idx, b, l2) ==
    IF l2 >= nLayers THEN [idx |-> idx, err |-> "none"]
    ELSE LET layerBitwidths2 == bitwidths[l2]
             target == IF Has(layerBitwidths2, b) THEN b ELSE <<b[1], None>>
         IN  IF ~Has(layerBitwidths2, target)
             THEN [idx |-> idx, err |-> "ValueError"]
             ELSE PointAt([idx EXCEPT ![l2] =
                              [f \in Filters |-> Index(layerBitwidths2, target)]],
                          b, l2 + 1)

\* applyOnBaseline, lines 432-450, for the bitwidths k .. of layer l: a
\* bitwidth not yet in baselineBops is probed and func is evaluated; the
\* evaluation numbered failAt raises.  st holds the selection, the map so
\* far, the evaluations made and the exception raised, if any.
RECURSIVE ProbeLayer(_, _, _, _)
ProbeLayer(st, l, k, failAt) ==
    IF k > Len(bitwidths[l]) \/ st.err # "none" THEN st
    ELSE LET bitwidth == bitwidths[l][k]
             p == PointAt(st.idx, bitwidth, 0)
             r == countBopsDiscrete(p.idx)
         IN  IF bitwidth \in DOMAIN st.baselineBops
             THEN ProbeLayer(st, l, k + 1, failAt)
             ELSE IF p.err # "none"
             THEN [st EXCEPT !.idx = p.idx, !.err = p.err]
             ELSE IF Len(st.evaluations) + 1 = failAt
             THEN [st EXCEPT !.idx = p.idx, !.err = "func raised",
                             !.evaluations = Append(@, [bitwidth |-> bitwidth,
                                                        idx |-> p.idx])]
             ELSE ProbeLayer([idx |-> p.idx,
                              baselineBops |-> (bitwidth :> r.bops) @@ st.baselineBops,
                              evaluations |-> Append(st.evaluations,
                                                 [bitwidth |-> bitwidth, idx |-> p.idx]),
                              calls |-> r.calls,
                              err |-> "none"],
                             l, k + 1, failAt)

\* ProbeFrom probing the bitwidths of every layer, with or without ReLU
RECURSIVE ProbeFrom_everyLayer(_, _, _)
ProbeFrom_everyLayer(st, l, failAt) ==
    IF l >= nLayers \/ st.err # "none" THEN st
    ELSE ProbeFrom_everyLayer(ProbeLayer(st, l, 1, failAt), l + 1, failAt)

\* applyOnBaseline, lines 426-450: the layers l .. nLayers-1 in order, those
\* of MixedConvWithReLU filters only
RECURSIVE ProbeFrom(_, _, _)
ProbeFrom(st, l, failAt) ==
    IF l >= nLayers \/ st.err # "none" THEN st
    ELSE IF withReLU[l] THEN ProbeFrom(ProbeLayer(st, l, 1, failAt), l + 1, failAt)
         ELSE ProbeFrom(st, l + 1, failAt)

\* RestoreFilters leaving the filters of the last layer where the probing
\* pointed them
RestoreFilters_allButLast(idx, modelFiltersIdx) ==
    [l \in DOMAIN idx |-> IF l = nLayers - 1 THEN idx[l] ELSE modelFiltersIdx[l]]

\* applyOnBaseline, lines 453-455: every filter gets back the index saved
\* in modelFiltersIdx
RestoreFilters(idx, modelFiltersIdx) ==
    [l \in DOMAIN idx |-> [f \in Filters |-> modelFiltersIdx[l][f]]]

\* BaseNet.applyOnBaseline(func) as a function of the selection: the indices
\* are saved, the bitwidths probed, and the indices restored at the end.  An
\* exception leaves the method before lines 453-455.
ApplyOnBaseline(idx, failAt) ==
    LET modelFiltersIdx == idx
        st == ProbeFrom([idx |-> idx, baselineBops |-> <<>>, evaluations |-> <<>>,
                         calls |-> <<>>, err |-> "none"], 0, failAt)
    IN  IF st.err # "none" THEN st
        ELSE [st EXCEPT !.idx = RestoreFilters(st.idx, modelFiltersIdx)]

\* BaseNet.applyOnBaseline(func), func raising on its evaluation numbered
\* failAt, if ever
applyOnBaseline(failAt) ==
    /\ cls = "BaseNet"
    /\ LET r == ApplyOnBaseline(curr_alpha_idx, failAt)
       IN  /\ curr_alpha_idx' = r.idx
           /\ baselineBops' = (IF r.err = "none" THEN r.baselineBops ELSE <<>>)
           /\ evaluations' = r.evaluations
           /\ getBopsCalls' = r.calls
           /\ raised' = r.err
    /\ lastCall' = "applyOnBaseline"
    /\ returned' = "None"
    /\ UNCHANGED <<stagingVars, bitwidths, withReLU, weightVars, loadVars, otherVars>>

\* BaseNet.calcBaselineBops: applyOnBaseline(self.countBops), and countBops
\* raises on no evaluation (failAt 0)
calcBaselineBops ==
    /\ cls = "BaseNet"
    /\ LET r == ApplyOnBaseline(curr_alpha_idx, 0)
       IN  /\ curr_alpha_idx' = r.idx
           /\ baselineBops' = (IF r.err = "none" THEN r.baselineBops ELSE <<>>)
           /\ evaluations' = r.evaluations
           /\ getBopsCalls' = r.calls
           /\ raised' = r.err
    /\ lastCall' = "calcBaselineBops"
    /\ returned' = "None"
    /\ UNCHANGED <<stagingVars, bitwidths, withReLU, weightVars, loadVars, otherVars>>

\* BaseNet.countBops under the current selection
countBops ==
    /\ cls = "BaseNet"
    /\ LET r == countBopsDiscrete(curr_alpha_idx)
       IN  /\ getBopsCalls' = r.calls
           /\ returned' = r.bops
    /\ lastCall' = "countBops"
    /\ raised' = "none"
    /\ UNCHANGED <<stagingVars, bitwidths, withReLU, curr_alpha_idx, baselineBops,
                   evaluations, weightVars, loadVars, otherVars>>

\* a mixed layer of the model: the kind of its filters, the bitwidths of
\* its operations and the operation each filter has selected
SelectionInit(n) ==
    /\ withReLU \in [0 .. (n - 1) -> BOOLEAN]
    /\ bitwidths \in [0 .. (n - 1) -> BitwidthsWithReLU \cup BitwidthsNoReLU]
    /\ \A l \in 0 .. (n - 1) :
          bitwidths[l] \in (IF withReLU[l] THEN BitwidthsWithReLU ELSE BitwidthsNoReLU)
    /\ curr_alpha_idx \in [0 .. (n - 1) -> [Filters -> 1 .. 2]]
    /\ \A l \in 0 .. (n - 1) : \A f \in Filters :
          curr_alpha_idx[l][f] <= Len(bitwidths[l])
    /\ baselineBops = <<>>
    /\ evaluations = <<>>
    /\ getBopsCalls = <<>>

InitBops ==
    /\ \E n \in 1 .. MaxMixedLayers : BaseNetInit(n) /\ SelectionInit(n)
    /\ Constructed
    /\ NoValues
    /\ NothingLoaded
    /\ NothingElse

NextBops ==
    \/ \E failAt \in 0 .. 2 : applyOnBaseline(failAt)
    \/ calcBaselineBops
    \/ countBops

SpecBops == InitBops /\ [][NextBops]_vars

\* ------------------------------------- quantize/restore round trip (BaseNet)

\* largest number of quantize/restore pairs counted
MaxRepetitions == 2

\* the float weights a layer may be given
WeightValues == 0 .. 3

\* a layer whose weight is followed by value
TrackedLayer(layer, w) ==
    [quatize_during_training |-> layer.quatize_during_training,
     noise_during_training   |-> layer.noise_during_training,
     quantized   |-> layer.quantized,
     added_noise |-> layer.added_noise,
     weights     |-> layer.weights,
     value       |-> w,
     backup      |-> w]

\* BaseNet.__init__, every layer holding the float weights it was given
InitWeights ==
    /\ \E n \in 1 .. MaxLayers :
          /\ cls = "BaseNet"
          /\ nLayers = n
          /\ nLayersQuantCompleted = 0
          /\ floatWeights \in [0 .. (n - 1) -> WeightValues]
          /\ layersList = [i \in 0 .. (n - 1) |->
                TrackedLayer(IF i = 0 THEN turnOnNoise(FreeLayer) ELSE FreeLayer,
                             floatWeights[i])]
          /\ requires_grad = [p \in Parameters(n) |-> TRUE]
          /\ learnable_params = {p \in Parameters(n) : requires_grad[p]}
    /\ Constructed
    /\ NoSelection
    /\ NothingLoaded
    /\ NothingElse
    /\ repetitions = 0

\* restoreQuantizationForStagedLayers(), as the first call of a pair
roundTripQuantize ==
    /\ cls = "BaseNet"
    /\ pc = "idle"
    /\ repetitions < MaxRepetitions
    /\ LET r == RestoreQuantizationFrom(layersList, 0, nLayersQuantCompleted)
       IN  /\ layersList' = r.ls
           /\ raised' = r.err
    /\ lastCall' = "restoreQuantizationForStagedLayers"
    /\ returned' = "None"
    /\ UNCHANGED <<cls, nLayers, nLayersQuantCompleted, hookState, paramState,
                   bopsVars, weightVars, loadVars, otherVars>>

\* removeQuantizationFromStagedLayers(); it completes a pair when the call
\* before it was restoreQuantizationForStagedLayers()
roundTripRestore ==
    /\ cls = "BaseNet"
    /\ pc = "idle"
    /\ LET r == RemoveQuantizationFrom(layersList, 0, nLayersQuantCompleted)
       IN  /\ layersList' = r.ls
           /\ raised' = r.err
           /\ repetitions' =
                 IF /\ lastCall = "restoreQuantizationForStagedLayers"
                    /\ raised = "none"
                    /\ r.err = "none"
                 THEN repetitions + 1
                 ELSE 0
    /\ lastCall' = "removeQuantizationFromStagedLayers"
    /\ returned' = "None"
    /\ UNCHANGED <<cls, nLayers, nLayersQuantCompleted, hookState, paramState,
                   bopsVars, floatWeights, loadVars, otherVars>>

NextWeights ==
    \/ BaseNet_switch_stage
    \/ roundTripQuantize
    \/ roundTripRestore

SpecWeights == InitWeights /\ [][NextWeights]_vars

\* ------------------------------------------- pre-trained checkpoint (BaseNet)

\* the path argument: None, a path with no file, a path of a checkpoint
Paths == {"None", "missing", "exists"}

\* what a loader hands back: False when the state dict does not fit it
LoaderResults == {"False", "True", "None"}

\* loadPreTrained, line 274: the loaders, in the order they are tried
loadFuncs == <<"loadUNIQPreTrained", "loadSingleOpPreTrained">>

\* a checkpoint: its updated_statistics entry and whether the keys of its
\* state dict are those of the model's
Checkpoints == [updated_statistics : UpdatedStatistics, sameKeys : BOOLEAN]

\* TryFrom calling every loader, whatever the loader before it returned; the
\* result kept is that of the first loader that fitted
RECURSIVE TryFrom_noBreak(_, _, _, _)
TryFrom_noBreak(results, k, calls, loadSuccess) ==
    IF k > Len(loadFuncs) THEN [calls |-> calls, loadSuccess |-> loadSuccess]
    ELSE TryFrom_noBreak(results, k + 1, Append(calls, loadFuncs[k]),
                         IF loadSuccess # "False" /\ k > 1 THEN loadSuccess
                         ELSE results[loadFuncs[k]])

\* loadPreTrained, lines 275-278: the loaders from the k-th on are called
\* until one returns something that is not False
RECURSIVE TryFrom(_, _, _, _)
TryFrom(results, k, calls, loadSuccess) ==
    IF k > Len(loadFuncs) THEN [calls |-> calls, loadSuccess |-> loadSuccess]
    ELSE LET func == loadFuncs[k]
         IN  IF results[func] # "False"
             THEN [calls |-> Append(calls, func), loadSuccess |-> results[func]]
             ELSE TryFrom(results, k + 1, Append(calls, func), results[func])

\* the last loader called: the one that loaded the weights, on success
Last(calls) == calls[Len(calls)]

\* LoadPreTrained returning True when the weights were loaded
LoadPreTrained_successFlag(path, checkpoint, results) ==
    LET nothing == [calls |-> <<>>, loadedBy |-> "nothing", rows |-> <<>>,
                    logged |-> FALSE, err |-> "none", ret |-> "False"]
        t == TryFrom(results, 1, <<>>, "False")
    IN  IF path = "None" THEN nothing
        ELSE IF path = "missing"
        THEN [nothing EXCEPT !.rows = <<"Path: failed, path does not exists">>,
                             !.logged = TRUE]
        ELSE IF checkpoint.updated_statistics = "absent"
        THEN [nothing EXCEPT !.err = "KeyError", !.ret = "None"]
        ELSE IF checkpoint.updated_statistics # "True"
        THEN [nothing EXCEPT !.err = "assert updated_statistics is True",
                             !.ret = "None"]
        ELSE IF checkpoint.sameKeys
        THEN [nothing EXCEPT !.err = "assert (False)", !.ret = "None"]
        ELSE IF t.loadSuccess # "False"
        THEN [calls |-> t.calls, loadedBy |-> Last(t.calls),
              rows |-> <<"Path", "Validation accuracy", "updated_statistics",
                         "Includes stats">>,
              logged |-> TRUE, err |-> "none", ret |-> "True"]
        ELSE [calls |-> t.calls, loadedBy |-> "nothing",
              rows |-> <<"Path: failed, state_dict does not fit">>,
              logged |-> TRUE, err |-> "none", ret |-> "False"]

\* BaseNet.loadPreTrained as a function of its inputs: the loaders called,
\* the rows collected, whether the table was logged, the exception raised
\* and the value returned
LoadPreTrained(path, checkpoint, results) ==
    LET nothing == [calls |-> <<>>, loadedBy |-> "nothing", rows |-> <<>>,
                    logged |-> FALSE, err |-> "none", ret |-> "False"]
        t == TryFrom(results, 1, <<>>, "False")
    IN  IF path = "None" THEN nothing
        ELSE IF path = "missing"
        THEN [nothing EXCEPT !.rows = <<"Path: failed, path does not exists">>,
                             !.logged = TRUE]
        ELSE IF checkpoint.updated_statistics = "absent"
        THEN [nothing EXCEPT !.err = "KeyError", !.ret = "None"]
        ELSE IF checkpoint.updated_statistics # "True"
        THEN [nothing EXCEPT !.err = "assert updated_statistics is True",
                             !.ret = "None"]
        ELSE IF checkpoint.sameKeys
        THEN [nothing EXCEPT !.err = "assert (False)", !.ret = "None"]
        ELSE IF t.loadSuccess # "False"
        THEN [calls |-> t.calls, loadedBy |-> Last(t.calls),
              rows |-> <<"Path", "Validation accuracy", "updated_statistics",
                         "Includes stats">>,
              logged |-> TRUE, err |-> "none", ret |-> "False"]
        ELSE [calls |-> t.calls, loadedBy |-> "nothing",
              rows |-> <<"Path: failed, state_dict does not fit">>,
              logged |-> TRUE, err |-> "none", ret |-> "False"]

\* BaseNet.loadPreTrained(path, logger, gpu)
loadPreTrained(path, checkpoint, results) ==
    /\ cls = "BaseNet"
    /\ LET r == LoadPreTrained(path, checkpoint, results)
       IN  /\ loadCalls' = r.calls
           /\ loadedBy' = (IF r.loadedBy = "nothing" THEN loadedBy ELSE r.loadedBy)
           /\ loggerRows' = r.rows
           /\ infoTable' = (IF r.logged THEN <<r.rows>> ELSE <<>>)
           /\ raised' = r.err
           /\ returned' = r.ret
    /\ loadArgs' = [path |-> path, checkpoint |-> checkpoint, results |-> results]
    /\ lastCall' = "loadPreTrained"
    /\ UNCHANGED <<stagingVars, bopsVars, weightVars, otherVars>>

InitLoad ==
    /\ BaseNetInit(1)
    /\ Constructed
    /\ NoSelection
    /\ NoValues
    /\ NothingLoaded
    /\ NothingElse

NextLoad ==
    \E path \in Paths, checkpoint \in Checkpoints,
       results \in [{loadFuncs[1], loadFuncs[2]} -> LoaderResults] :
          loadPreTrained(path, checkpoint, results)

SpecLoad == InitLoad /\ [][NextLoad]_vars

\* -------------------------------------------- checkpoint statistics (BaseNet)

\* a checkpoint as read from its file: the updated_statistics entry, what
\* the weights of its state dict hold, and whether the state dict fits the
\* model
CheckpointFiles ==
    [updated_statistics : UpdatedStatistics, state_dict : CheckpointWeights,
     fits : BOOLEAN]

\* updateCheckpointStatistics, lines 233-234: the checkpoint takes the model's
\* state dict and is marked up to date
MarkUpdated(chk, state_dict) ==
    [chk EXCEPT !.state_dict = state_dict, !.updated_statistics = "True",
                !.fits = TRUE]

\* the caller reads a checkpoint from its file
loadModel(file) ==
    /\ cls = "BaseNet"
    /\ pc = "idle"
    /\ optCheckpoint' = file
    /\ savedFile' = file
    /\ statisticsRuns' = 0
    /\ UNCHANGED atCall
    /\ lastCall' = "loadModel"
    /\ raised' = "none"
    /\ returned' = "None"
    /\ UNCHANGED <<stagingVars, exceptCkpt>>

\* BaseNet.updateCheckpointStatistics(optCheckpoint, path, statistics_queue), up
\* to line 227, on the checkpoint the caller holds
updateCheckpoint ==
    /\ optCheckpoint # <<>>
    /\ EnterUpdate(optCheckpoint.updated_statistics)
    /\ atCall' = [layersList |-> layersList,
                  nLayersQuantCompleted |-> nLayersQuantCompleted]
    /\ UNCHANGED <<exceptCkpt, checkpointState>>

\* BaseNet.updateCheckpointStatistics from line 229 on: when load_state_dict
\* and calcStatistics went through, the checkpoint takes the model's state
\* dict, is marked up to date and is saved at its path
updateCheckpointFinish(batches) ==
    /\ optCheckpoint # <<>>
    /\ FinishUpdate(optCheckpoint.fits, optCheckpoint.state_dict, batches)
    /\ IF raised' = "none"
       THEN /\ optCheckpoint' = MarkUpdated(optCheckpoint, optCheckpoint.state_dict)
            /\ savedFile' = optCheckpoint'
            /\ statisticsRuns' = statisticsRuns + 1
            /\ UNCHANGED atCall
       ELSE UNCHANGED ckptVars
    /\ UNCHANGED exceptCkpt

InitStatistics ==
    /\ \E n \in 1 .. MaxLayers : BaseNetInit(n)
    /\ Constructed
    /\ NoSelection
    /\ NoValues
    /\ NothingLoaded
    /\ NothingElse

NextStatistics ==
    \/ \E file \in CheckpointFiles : loadModel(file)
    \/ updateCheckpoint
    \/ \E batches \in 0 .. 1 : updateCheckpointFinish(batches)
    \/ unQuantizeUnstagedLayers
    \/ setWeightsTrainingHooks
    \/ removeWeightsTrainingHooks

SpecStatistics == InitStatistics /\ [][NextStatistics]_vars

\* ------------------------------------------------------- BaseNet.__init__

\* BaseNet.countBopsFuncs, line 79
countBopsFuncs == [discrete |-> "countBopsDiscrete"]

\* values of args.bopsCounter a caller may pass
BopsCounters == {"discrete", "continuous", "None"}

\* len(layer.alphas) of a layer built by initLayers
AlphasPerLayer == 1 .. 2

\* InitStatements with the counting function looked up at the end
InitStatements_lookupLast ==
    <<"layers", "layersList", "stats", "learnable_params",
      "learnable_alphas", "nLayersQuantCompleted", "baselineBops", "_criterion",
      "hooksList", "hookFlag", "layersPerm", "nPerms", "for layer", "alphas_df",
      "countBopsFunc", "return">>

\* BaseNet.__init__, lines 88-127: the attributes in the order they are
\* assigned, the loop over the layers and the return
InitStatements ==
    <<"layers", "layersList", "countBopsFunc", "stats", "learnable_params",
      "learnable_alphas", "nLayersQuantCompleted", "baselineBops", "_criterion",
      "hooksList", "hookFlag", "layersPerm", "nPerms", "for layer", "alphas_df",
      "return">>

\* the value a statement of __init__ assigns
InitValue(stmt, a) ==
    LET n == Len(a.alphas)
    IN  CASE stmt = "layers" -> n
          [] stmt = "layersList" -> n
          [] stmt = "countBopsFunc" -> countBopsFuncs[a.bopsCounter]
          [] stmt = "learnable_params" -> Parameters(n)
          [] stmt = "learnable_alphas" -> 0 .. (n - 1)
          [] stmt = "nLayersQuantCompleted" -> 0
          [] stmt = "hooksList" -> <<>>
          [] stmt = "hookFlag" -> FALSE
          [] stmt = "layersPerm" -> <<>>
          [] stmt = "nPerms" -> 1
          [] OTHER -> stmt

\* BaseNet(args, initLayersParams): __init__ is entered
construct(a) ==
    /\ cls = "none"
    /\ args = <<>>
    /\ args' = a
    /\ attrs' = <<>>
    /\ initLine' = 1
    /\ lastCall' = "__init__"
    /\ UNCHANGED <<stagingVars, raised, returned, exceptCtor>>

\* one assignment of __init__; the lookup of line 92 raises KeyError when
\* args.bopsCounter is no key of countBopsFuncs, and __init__ is left
initStatement ==
    /\ initLine > 0
    /\ LET stmt == InitStatements[initLine]
       IN  /\ stmt \notin {"for layer", "return"}
           /\ IF stmt = "countBopsFunc"
                  /\ args.bopsCounter \notin DOMAIN countBopsFuncs
              THEN /\ raised' = "KeyError"
                   /\ initLine' = 0
                   /\ UNCHANGED attrs
              ELSE /\ attrs' = attrs @@ (stmt :> InitValue(stmt, args))
                   /\ initLine' = initLine + 1
                   /\ UNCHANGED raised
    /\ UNCHANGED <<stagingVars, lastCall, returned, args, exceptCtor>>

\* __init__, lines 119-122: the loop over the layers, one layer at a time
initPermutation ==
    /\ initLine > 0
    /\ InitStatements[initLine] = "for layer"
    /\ LET done == Len(attrs.layersPerm)
       IN  IF done < Len(args.alphas)
           THEN /\ attrs' = [attrs EXCEPT
                        !.layersPerm = Append(@, 0 .. (args.alphas[done + 1] - 1)),
                        !.nPerms = @ * args.alphas[done + 1]]
                /\ UNCHANGED initLine
           ELSE /\ initLine' = initLine + 1
                /\ UNCHANGED attrs
    /\ UNCHANGED <<stagingVars, lastCall, raised, returned, args, exceptCtor>>

\* __init__ returns: the caller holds the model
initReturn ==
    /\ initLine > 0
    /\ InitStatements[initLine] = "return"
    /\ initLine' = 0
    /\ cls' = "BaseNet"
    /\ nLayers' = attrs.layersList
    /\ nLayersQuantCompleted' = attrs.nLayersQuantCompleted
    /\ layersList' = [i \in 0 .. (attrs.layersList - 1) |->
                         IF i = 0 THEN turnOnNoise(FreeLayer) ELSE FreeLayer]
    /\ requires_grad' = [p \in attrs.learnable_params |-> TRUE]
    /\ learnable_params' = attrs.learnable_params
    /\ hookFlag' = attrs.hookFlag
    /\ hooksList' = Len(attrs.hooksList)
    /\ UNCHANGED <<training, pc, nLayersQuantCompletedOrg, switchCalls, lastCall,
                   raised, returned, args, attrs, exceptCtor>>

\* no model has been constructed yet
InitConstruct ==
    /\ NoModel
    /\ Constructed
    /\ NoSelection
    /\ NoValues
    /\ NothingLoaded
    /\ NothingElse

NextConstruct ==
    \/ \E n \in 1 .. MaxLayers, bopsCounter \in BopsCounters :
          \E alphas \in [1 .. n -> AlphasPerLayer] :
             construct([bopsCounter |-> bopsCounter, alphas |-> alphas])
    \/ initStatement
    \/ initPermutation
    \/ initReturn

SpecConstruct == InitConstruct /\ [][NextConstruct]_vars

\* ------------------------------------------------------------------ ActQuant

\* bitwidths a unit may be given: None, an integer, the default
UnitBitwidths == {None, 4, FullPrecision}

\* Forward quantizing in evaluation mode only
Forward_inferenceOnly(unit) ==
    IF unit.quant /\ ~unit.training
    THEN IF unit.bitwidth # None
         THEN [x |-> "act_quantize", err |-> "none"]
         ELSE [x |-> "None", err |-> "assert isinstance(bitwidth, int)"]
    ELSE IF unit.noise /\ unit.training /\ unit.noise_during_training
    THEN [x |-> "None", err |-> "assert (False)"]
    ELSE [x |-> "relu", err |-> "none"]

\* Forward with the two branches in the other order: the noise goes first
Forward_noiseFirst(unit) ==
    IF unit.noise /\ unit.training /\ unit.noise_during_training
    THEN [x |-> "None", err |-> "assert (False)"]
    ELSE IF unit.quant /\ (~unit.training \/
                              (unit.training /\ unit.quatize_during_training))
    THEN IF unit.bitwidth # None
         THEN [x |-> "act_quantize", err |-> "none"]
         ELSE [x |-> "None", err |-> "assert isinstance(bitwidth, int)"]
    ELSE [x |-> "relu", err |-> "none"]

\* ActQuant.forward, lines 22-29: what is applied to the input, or the
\* assertion that fails
Forward(unit) ==
    IF unit.quant /\ (~unit.training \/
                         (unit.training /\ unit.quatize_during_training))
    THEN IF unit.bitwidth # None
         THEN [x |-> "act_quantize", err |-> "none"]
         ELSE [x |-> "None", err |-> "assert isinstance(bitwidth, int)"]
    ELSE IF unit.noise /\ unit.training /\ unit.noise_during_training
    THEN [x |-> "None", err |-> "assert (False)"]
    ELSE [x |-> "relu", err |-> "none"]

\* ActQuant.__init__; nn.Module.__init__ sets training to True
ActQuant_init(quatize_during_training, noise_during_training, quant, noise, bitwidth) ==
    /\ actQuant = <<>>
    /\ actQuant' = [quant |-> quant, noise |-> noise, bitwidth |-> bitwidth,
                    quatize_during_training |-> quatize_during_training,
                    noise_during_training |-> noise_during_training,
                    training |-> TRUE]
    /\ lastCall' = "ActQuant.__init__"
    /\ raised' = "none"
    /\ returned' = "None"
    /\ UNCHANGED <<stagingVars, exceptUnit>>

\* ActQuant.update_stage on the unit
ActQuant_update_stage(quatize_during_training, noise_during_training) ==
    /\ actQuant # <<>>
    /\ actQuant' = [actQuant EXCEPT
                      !.quatize_during_training = quatize_during_training,
                      !.noise_during_training = noise_during_training]
    /\ lastCall' = "ActQuant.update_stage"
    /\ raised' = "none"
    /\ returned' = "None"
    /\ UNCHANGED <<stagingVars, exceptUnit>>

\* Module.train(mode) on the unit; eval() is train(False)
ActQuant_train(mode) ==
    /\ actQuant # <<>>
    /\ actQuant' = [actQuant EXCEPT !.training = mode]
    /\ lastCall' = "ActQuant.train"
    /\ raised' = "none"
    /\ returned' = "None"
    /\ UNCHANGED <<stagingVars, exceptUnit>>

\* ActQuant.forward(input) on the unit
ActQuant_forward ==
    /\ actQuant # <<>>
    /\ lastCall' = "ActQuant.forward"
    /\ raised' = Forward(actQuant).err
    /\ returned' = Forward(actQuant).x
    /\ UNCHANGED <<stagingVars, actQuant, exceptUnit>>

InitActQuant ==
    /\ NoModel
    /\ Constructed
    /\ NoSelection
    /\ NoValues
    /\ NothingLoaded
    /\ NothingElse

NextActQuant ==
    \/ \E q \in BOOLEAN, n \in BOOLEAN, quant \in BOOLEAN, noise \in BOOLEAN,
          bitwidth \in UnitBitwidths : ActQuant_init(q, n, quant, noise, bitwidth)
    \/ \E q \in BOOLEAN, n \in BOOLEAN : ActQuant_update_stage(q, n)
    \/ \E mode \in BOOLEAN : ActQuant_train(mode)
    \/ ActQuant_forward

SpecActQuant == InitActQuant /\ [][NextActQuant]_vars

\* ------------------------------------------------- cells of Network

\* Stride with every edge of a reduction cell strided
Stride_everyEdge(reduction, j) == IF reduction THEN 2 ELSE 1

\* Cell.__init__, line 53
Stride(reduction, j) == IF reduction /\ j < 2 THEN 2 ELSE 1

\* Cell.__init__, lines 50-55: the mixed operations appended from edge
\* (i, j) on, each with the edge it was built for and its stride
RECURSIVE BuildOps(_, _, _, _, _)
BuildOps(steps, reduction, i, j, ops) ==
    IF i >= steps THEN ops
    ELSE IF j >= 2 + i THEN BuildOps(steps, reduction, i + 1, 0, ops)
    ELSE BuildOps(steps, reduction, i, j + 1,
                  Append(ops, [i |-> i, j |-> j, stride |-> Stride(reduction, j)]))

\* Cell.__init__
Cell(steps, multiplier, reduction, reduction_prev) ==
    [reduction |-> reduction, reduction_prev |-> reduction_prev,
     _steps |-> steps, _multiplier |-> multiplier,
     _ops |-> BuildOps(steps, reduction, 0, 0, <<>>)]

\* StepsFrom with the offset advanced by one per step
RECURSIVE StepsFrom_offsetByOne(_, _, _, _, _)
StepsFrom_offsetByOne(steps, i, offset, nStates, uses) ==
    IF i >= steps THEN [uses |-> uses, nStates |-> nStates]
    ELSE StepsFrom_offsetByOne(steps, i + 1, offset + 1, nStates + 1,
            Append(uses, [jj \in 1 .. nStates |->
                             [op |-> offset + jj - 1, h |-> jj - 1,
                              row |-> offset + jj - 1]]))

\* Cell.forward, lines 63-66: step i applies operation offset + j to state
\* j with the weights of row offset + j, for every state j gathered so far,
\* and appends the sum to the states
RECURSIVE StepsFrom(_, _, _, _, _)
StepsFrom(steps, i, offset, nStates, uses) ==
    IF i >= steps THEN [uses |-> uses, nStates |-> nStates]
    ELSE StepsFrom(steps, i + 1, offset + nStates, nStates + 1,
            Append(uses, [jj \in 1 .. nStates |->
                             [op |-> offset + jj - 1, h |-> jj - 1,
                              row |-> offset + jj - 1]]))

\* states[-multiplier:] of a list of nStates states, as the indices kept
LastStates(nStates, multiplier) ==
    LET from == IF multiplier = 0 \/ multiplier >= nStates THEN 0
                ELSE nStates - multiplier
    IN  [q \in 1 .. (nStates - from) |-> from + q - 1]

\* Cell.forward: states 0 and 1 are the preprocessed s0 and s1; the uses of
\* the operations per step and the states concatenated
CellForward(cell) ==
    LET r == StepsFrom(cell._steps, 0, 0, 2, <<>>)
    IN  [uses |-> r.uses, out |-> LastStates(r.nStates, cell._multiplier)]

\* IsReduction with the second index computed as 2 * (layers // 3)
IsReduction_floorFirst(i, layers) == i \in {layers \div 3, 2 * (layers \div 3)}

\* Network.__init__, line 94
IsReduction(i, layers) == i \in {layers \div 3, (2 * layers) \div 3}

\* Network.__init__, lines 92-102: the cells from the i-th on
RECURSIVE BuildCells(_, _, _, _, _, _)
BuildCells(layers, steps, multiplier, i, reduction_prev, cells) ==
    IF i >= layers THEN cells
    ELSE BuildCells(layers, steps, multiplier, i + 1, IsReduction(i, layers),
            Append(cells, Cell(steps, multiplier, IsReduction(i, layers),
                               reduction_prev)))

\* Network._initialize_alphas, line 132: k
RECURSIVE CountRows(_, _)
CountRows(steps, i) == IF i >= steps THEN 0 ELSE (2 + i) + CountRows(steps, i + 1)

\* Network.__init__: the cells and the two alpha tensors of k rows
NetworkCells(layers, steps, multiplier) ==
    [layers |-> layers, steps |-> steps, multiplier |-> multiplier,
     cells |-> BuildCells(layers, steps, multiplier, 0, FALSE, <<>>),
     k |-> CountRows(steps, 0)]

\* a tensor of the forward pass: the output of the stem or of a cell
Tensor(from, idx) == [from |-> from, idx |-> idx]

\* Weights taking the normal alphas for every cell
Weights_normalOnly(cell) == "softmax(alphas_normal)"

\* Network.forward, lines 118-121
Weights(cell) ==
    IF cell.reduction THEN "softmax(alphas_reduce)" ELSE "softmax(alphas_normal)"

\* Network.forward, line 116
Network_forward ==
    /\ cls = "Network"
    /\ forwardPass.at # "cells"
    /\ forwardPass' = [at |-> "cells", i |-> 0, s0 |-> Tensor("stem", 0),
                       s1 |-> Tensor("stem", 0), calls |-> <<>>]
    /\ lastCall' = "forward"
    /\ raised' = "none"
    /\ returned' = "None"
    /\ UNCHANGED <<stagingVars, network, exceptSearch>>

\* Network.forward, lines 117-122: one cell of the loop
Network_cell ==
    /\ cls = "Network"
    /\ forwardPass.at = "cells"
    /\ forwardPass.i < Len(network.cells)
    /\ LET i == forwardPass.i
           cell == network.cells[i + 1]
       IN  forwardPass' = [forwardPass EXCEPT
              !.i = i + 1,
              !.s0 = forwardPass.s1,
              !.s1 = Tensor("cell", i),
              !.calls = Append(@, [cell |-> i, s0 |-> forwardPass.s0,
                                   s1 |-> forwardPass.s1,
                                   weights |-> Weights(cell),
                                   forward |-> CellForward(cell)])]
    /\ UNCHANGED <<stagingVars, lastCall, raised, returned, network, exceptSearch>>

\* Network.forward, lines 123-125: the logits are computed from s1
Network_logits ==
    /\ cls = "Network"
    /\ forwardPass.at = "cells"
    /\ forwardPass.i = Len(network.cells)
    /\ forwardPass' = [forwardPass EXCEPT !.at = "done"]
    /\ returned' = "logits"
    /\ UNCHANGED <<stagingVars, lastCall, raised, network, exceptSearch>>

InitSearch ==
    /\ \E layers \in 1 .. MaxCells, steps \in 1 .. MaxSteps,
          multiplier \in 0 .. (MaxSteps + 2) :
             /\ NetworkInit(layers)
             /\ network = NetworkCells(layers, steps, multiplier)
    /\ forwardPass = [at |-> "idle", i |-> 0, s0 |-> Tensor("none", 0),
                      s1 |-> Tensor("none", 0), calls |-> <<>>]
    /\ Constructed
    /\ NoSelection
    /\ NoValues
    /\ NothingLoaded
    /\ NoCheckpoint
    /\ NotConstructing
    /\ NoUnit
    /\ NoCalc
    /\ NoAlphas
    /\ NoRegime
    /\ NoGrid

NextSearch ==
    \/ Network_forward
    \/ Network_cell
    \/ Network_logits

SpecSearch == InitSearch /\ [][NextSearch]_vars

\* ---------------------------------------------------------- calcStatistics

MaxExtraBatches == 2

\* line 193
nBatches == 80

\* The queues calcStatistics is handed: empty, short, exactly nBatches long,
\* longer, and one that never ends.
Queues ==
    {[len |-> k, unbounded |-> FALSE] :
        k \in {0, MaxExtraBatches, nBatches, nBatches + 1,
               nBatches + MaxExtraBatches}}
    \cup {[len |-> 0, unbounded |-> TRUE]}

\* the iterator of the queue has another batch after `drawn` of them
HasNext(queue, drawn) == queue.unbounded \/ drawn < queue.len

\* lines 178-184 over every layer: each unit is rebound to statisticsForward
StatisticsMode(uf) ==
    [i \in DOMAIN uf |-> IF uf[i] = "none" THEN "none" ELSE "statisticsForward"]

\* lines 208-212 without the rebinding of line 212
StandardMode_keeps(uf) == uf

\* lines 208-212 over every layer: each unit is rebound to standardForward
StandardMode(uf) ==
    [i \in DOMAIN uf |-> IF uf[i] = "none" THEN "none" ELSE "standardForward"]

\* line 197 with > for >=
Breaks_late(step) == step > nBatches

\* line 197: if step >= nBatches: break
Breaks(step) == step >= nBatches

\* calcStatistics up to the loop (lines 165-195): the units collect
\* statistics, the model is in evaluation mode
calcStatistics(queue) ==
    /\ cls = "BaseNet"
    /\ pc = "idle"
    /\ statistics_queue' = queue
    /\ unitForward' = StatisticsMode(unitForward)
    /\ training' = FALSE
    /\ calc' = [at |-> "loop", drawn |-> 0, passes |-> 0,
                entry |-> [layersList |-> layersList,
                           nLayersQuantCompleted |-> nLayersQuantCompleted]]
    /\ pc' = "calcStatistics"
    /\ lastCall' = "calcStatistics"
    /\ raised' = "none"
    /\ UNCHANGED <<cls, nLayers, nLayersQuantCompleted, layersList, hookFlag,
                   hooksList, nLayersQuantCompletedOrg, paramState, returned,
                   exceptCalc>>

\* One turn of the loop (lines 196-201).  enumerate draws the next batch,
\* then line 197 decides whether it is used.  The forward pass runs the
\* registered hooks: preForward fails in evaluation mode and the exception
\* leaves calcStatistics.
calcStatisticsBatch ==
    /\ pc = "calcStatistics"
    /\ calc.at = "loop"
    /\ IF ~HasNext(statistics_queue, calc.drawn)
       THEN /\ calc' = [calc EXCEPT !.at = "after"]
            /\ UNCHANGED <<hookFlag, pc, raised>>
       ELSE IF Breaks(calc.drawn)
       THEN /\ calc' = [calc EXCEPT !.at = "after", !.drawn = @ + 1]
            /\ UNCHANGED <<hookFlag, pc, raised>>
       ELSE IF hooksList # 0
       THEN LET r == PreForward(hookFlag, layersList, nLayersQuantCompleted,
                                nLayers, training)
            IN  /\ calc' = [calc EXCEPT !.at = "raised", !.drawn = @ + 1]
                /\ hookFlag' = r.hookFlag
                /\ raised' = r.err
                /\ pc' = "idle"
       ELSE /\ calc' = [calc EXCEPT !.drawn = @ + 1, !.passes = @ + 1]
            /\ UNCHANGED <<hookFlag, pc, raised>>
    /\ UNCHANGED <<cls, nLayers, nLayersQuantCompleted, layersList, hooksList,
                   training, nLayersQuantCompletedOrg, paramState, lastCall,
                   returned, statistics_queue, unitForward, exceptCalc>>

\* after the loop (lines 202-212): the units get their standard forward back
calcStatisticsEnd ==
    /\ pc = "calcStatistics"
    /\ calc.at = "after"
    /\ unitForward' = StandardMode(unitForward)
    /\ calc' = [calc EXCEPT !.at = "done"]
    /\ pc' = "idle"
    /\ returned' = "None"
    /\ UNCHANGED <<cls, nLayers, nLayersQuantCompleted, layersList, hookFlag,
                   hooksList, training, nLayersQuantCompletedOrg, paramState,
                   lastCall, raised, statistics_queue, exceptCalc>>

\* a constructed BaseNet whose layers have activation units or not
InitCalc ==
    /\ \E n \in 1 .. MaxMixedLayers :
          /\ BaseNetInit(n)
          /\ unitForward \in [0 .. (n - 1) -> {"none", "standardForward"}]
    /\ statistics_queue = <<>>
    /\ calc = [at |-> "idle", drawn |-> 0, passes |-> 0, entry |-> <<>>]
    /\ Constructed
    /\ NoSelection
    /\ NoValues
    /\ NothingLoaded
    /\ NoCheckpoint
    /\ NotConstructing
    /\ NoUnit
    /\ NoCells
    /\ NoAlphas
    /\ NoRegime
    /\ NoGrid

NextCalc ==
    \/ \E queue \in Queues : calcStatistics(queue)
    \/ calcStatisticsBatch
    \/ calcStatisticsEnd
    \/ setWeightsTrainingHooks
    \/ removeWeightsTrainingHooks
    \/ \E mode \in BOOLEAN : train(mode)
    \/ quantizeUnstagedLayers
    \/ unQuantizeUnstagedLayers

SpecCalc == InitCalc /\ [][NextCalc]_vars

\* ------------------------------------------------------ the alphas' state

MaxAlpha == 2

\* the values a tensor of alphas takes
AlphaValues == 0 .. MaxAlpha

\* save_alphas_state (line 482): the list of (i, layer.alphas); each entry
\* holds the tensor object of the layer, not a copy of it
SaveAlphasState(n) == [k \in 1 .. n |-> <<k - 1, layerAlphas[k - 1]>>]

\* alphas.data of an entry of the state: the values of the tensor it holds
DataOf(entry, data) == data[entry[2]]

RECURSIVE LoadAlphasFrom(_, _, _)

\* load_alphas_state (lines 485-488), from entry k on: the tensor of layer
\* layerIdx is given the data of the entry
LoadAlphasFrom(state, k, data) ==
    IF k > Len(state)
    THEN data
    ELSE LoadAlphasFrom(state, k + 1,
             [data EXCEPT ![layerAlphas[state[k][1]]] = DataOf(state[k], data)])

\* the values of the alphas of every layer
AlphasOf(data) == [i \in DOMAIN layerAlphas |-> data[layerAlphas[i]]]

save_alphas_state ==
    /\ cls = "BaseNet"
    /\ alphasState' = SaveAlphasState(nLayers)
    /\ alphasAtSave' = AlphasOf(tensorData)
    /\ lastCall' = "save_alphas_state"
    /\ raised' = "none"
    /\ returned' = "state"
    /\ UNCHANGED <<stagingVars, layerAlphas, tensorData, exceptAlphas>>

\* an optimizer step on the alphas of layer i: the tensor is updated in place
optimizerStep(i, v) ==
    /\ cls = "BaseNet"
    /\ tensorData' = [tensorData EXCEPT ![layerAlphas[i]] = v]
    /\ lastCall' = "optimizer.step"
    /\ raised' = "none"
    /\ returned' = "None"
    /\ UNCHANGED <<stagingVars, layerAlphas, alphasState, alphasAtSave,
                   exceptAlphas>>

load_alphas_state ==
    /\ cls = "BaseNet"
    /\ alphasState # <<>>
    /\ tensorData' = LoadAlphasFrom(alphasState, 1, tensorData)
    /\ lastCall' = "load_alphas_state"
    /\ raised' = "none"
    /\ returned' = "None"
    /\ UNCHANGED <<stagingVars, layerAlphas, alphasState, alphasAtSave,
                   exceptAlphas>>

\* a constructed BaseNet; each layer has a tensor of alphas of its own
InitAlphas ==
    /\ \E n \in 1 .. MaxMixedLayers :
          /\ BaseNetInit(n)
          /\ layerAlphas = [i \in 0 .. (n - 1) |-> i]
          /\ tensorData \in [0 .. (n - 1) -> AlphaValues]
    /\ alphasState = <<>>
    /\ alphasAtSave = <<>>
    /\ Constructed
    /\ NoSelection
    /\ NoValues
    /\ NothingLoaded
    /\ NoCheckpoint
    /\ NotConstructing
    /\ NoUnit
    /\ NoCells
    /\ NoCalc
    /\ NoRegime
    /\ NoGrid

NextAlphas ==
    \/ save_alphas_state
    \/ \E i \in LayerIdx, v \in AlphaValues : optimizerStep(i, v)
    \/ load_alphas_state

SpecAlphas == InitAlphas /\ [][NextAlphas]_vars

\* ---------------------------------------------------- OptimalModel.train()

\* the statements of train() that act on the model or on a file, in the
\* order of the text
TrainStatements ==
    <<"isQuantized", "calcStatistics", "save_checkpoint", "saveModel",
      "updateCheckpointStatistics">>

\* the weights self.model.state_dict() holds
StateDict(ls) ==
    IF \A i \in DOMAIN ls : ls[i].weights = "quantized"
    THEN "quantized" ELSE "float"

\* train() has passed statement `stmt` and stands at `at`
Passed(stmt, at) ==
    [optimalModel EXCEPT !.at = at, !.done = Append(@, stmt)]

\* train(), line 20: assert (self.model.isQuantized() is True)
OptimalModel_train(batches) ==
    /\ cls = "BaseNet"
    /\ pc = "idle"
    /\ optimalModel.at = "idle"
    /\ LET err == isQuantized(layersList, 0, nLayers)
       IN  /\ raised' = err
           /\ optimalModel' =
                 [at |-> IF err = "none" THEN "line 22" ELSE "raised",
                  done |-> <<"isQuantized">>,
                  batches |-> batches,
                  optFlag |-> optCheckpoint.updated_statistics]
    /\ lastCall' = "OptimalModel.train"
    /\ returned' = "None"
    /\ UNCHANGED <<stagingVars, ckptVars, lastCheckpoint, lastFile,
                   exceptOptimal>>

\* train(), line 22: calcStatistics puts the model in evaluation mode and
\* runs one forward pass per batch, through the pre-forward hook when the
\* hooks are registered
OptimalModel_calcStatistics ==
    /\ optimalModel.at = "line 22"
    /\ training' = FALSE
    /\ IF optimalModel.batches > 0 /\ hooksList > 0
       THEN LET r == PreForward(hookFlag, layersList, nLayersQuantCompleted,
                                nLayers, FALSE)
            IN  /\ hookFlag' = r.hookFlag
                /\ raised' = r.err
                /\ optimalModel' = Passed("calcStatistics", "raised")
       ELSE /\ optimalModel' = Passed("calcStatistics", "line 24")
            /\ UNCHANGED <<hookFlag, raised>>
    /\ UNCHANGED <<cls, nLayers, nLayersQuantCompleted, layersList, hooksList,
                   pc, nLayersQuantCompletedOrg, paramState, lastCall,
                   returned, ckptVars, lastCheckpoint, lastFile,
                   exceptOptimal>>

\* train(), lines 24-25: save_checkpoint writes the model at lastPath and
\* returns the checkpoint it wrote
OptimalModel_save_checkpoint(updated_statistics) ==
    /\ optimalModel.at = "line 24"
    /\ lastCheckpoint' = [updated_statistics |-> updated_statistics,
                          state_dict |-> StateDict(layersList),
                          fits |-> TRUE]
    /\ lastFile' = lastCheckpoint'
    /\ optimalModel' = Passed("save_checkpoint", "line 26")
    /\ UNCHANGED <<stagingVars, lastCall, raised, returned, ckptVars,
                   exceptOptimal>>

\* train(), lines 26-27: the checkpoint is marked and saved again
OptimalModel_saveModel ==
    /\ optimalModel.at = "line 26"
    /\ lastCheckpoint' = [lastCheckpoint EXCEPT !.updated_statistics = "True"]
    /\ lastFile' = lastCheckpoint'
    /\ optimalModel' = Passed("saveModel", "line 32")
    /\ UNCHANGED <<stagingVars, lastCall, raised, returned, ckptVars,
                   exceptOptimal>>

\* train(), lines 31-32: updateCheckpointStatistics on the optimal
\* checkpoint, up to line 227 of BaseNet.py
OptimalModel_updateCheckpointStatistics ==
    /\ optimalModel.at = "line 32"
    /\ EnterUpdate(optCheckpoint.updated_statistics)
    /\ optimalModel' =
          Passed("updateCheckpointStatistics",
                 IF raised' # "none" THEN "raised"
                 ELSE IF pc' = "ucs" THEN "line 229" ELSE "done")
    /\ UNCHANGED <<ckptVars, lastCheckpoint, lastFile, exceptOptimal>>

\* the same call from line 229 of BaseNet.py on
OptimalModel_updateCheckpointStatisticsFinish ==
    /\ optimalModel.at = "line 229"
    /\ FinishUpdate(optCheckpoint.fits, optCheckpoint.state_dict,
                    optimalModel.batches)
    /\ IF raised' = "none"
       THEN /\ optCheckpoint' = MarkUpdated(optCheckpoint, optCheckpoint.state_dict)
            /\ savedFile' = optCheckpoint'
            /\ statisticsRuns' = statisticsRuns + 1
            /\ optimalModel' = [optimalModel EXCEPT !.at = "done"]
       ELSE /\ UNCHANGED checkpointState
            /\ optimalModel' = [optimalModel EXCEPT !.at = "raised"]
    /\ UNCHANGED <<atCall, lastCheckpoint, lastFile, exceptOptimal>>

\* the caller prepares the model before train() is called
BeforeTrain == optimalModel.at = "idle"

\* a constructed BaseNet and the optimal checkpoint the regime read
InitOptimal ==
    /\ \E n \in 1 .. MaxMixedLayers : BaseNetInit(n)
    /\ Constructed
    /\ optCheckpoint \in CheckpointFiles
    /\ savedFile = optCheckpoint
    /\ statisticsRuns = 0
    /\ atCall = <<>>
    /\ optimalModel = [at |-> "idle", done |-> <<>>, batches |-> 0,
                       optFlag |-> "absent"]
    /\ lastCheckpoint = <<>>
    /\ lastFile = <<>>
    /\ NoSelection
    /\ NoValues
    /\ NothingLoaded
    /\ NotConstructing
    /\ NoUnit
    /\ NoCells
    /\ NoCalc
    /\ NoAlphas
    /\ NoGrid

NextOptimal ==
    \/ BeforeTrain /\ quantizeUnstagedLayers
    \/ BeforeTrain /\ unQuantizeUnstagedLayers
    \/ BeforeTrain /\ BaseNet_switch_stage
    \/ BeforeTrain /\ restoreQuantizationForStagedLayers
    \/ BeforeTrain /\ setWeightsTrainingHooks
    \/ BeforeTrain /\ removeWeightsTrainingHooks
    \/ \E batches \in 0 .. 1 : OptimalModel_train(batches)
    \/ OptimalModel_calcStatistics
    \/ \E u \in UpdatedStatistics : OptimalModel_save_checkpoint(u)
    \/ OptimalModel_saveModel
    \/ OptimalModel_updateCheckpointStatistics
    \/ OptimalModel_updateCheckpointStatisticsFinish

SpecOptimal == InitOptimal /\ [][NextOptimal]_vars

\* ------------------------------------------------ Statistics.__findGrid

MaxPlots == 24

\* Statistics.nColsMax, statistics.py line 36
nColsMax == 7

\* Statistics.nRowsDefault, statistics.py line 37
nRowsDefault == 3

\* optDiff = None, line 237
NoDiff == -1

\* math.ceil(a / b) for positive integers
Ceil(a, b) == (a + b - 1) \div b

\* line 245: the grid of this turn is valid and better than the one kept
Better(nCols, diff, optDiff) ==
    (nCols <= nColsMax) /\ ((optDiff = NoDiff) \/ (diff < optDiff))

\* the call, lines 236-237
findGrid(nPlots) ==
    /\ IF grid = <<>> THEN TRUE ELSE grid.at \in {"returned", "raised"}
    /\ grid' = [nPlots |-> nPlots, at |-> "loop", nRows |-> 1,
                nRowsOpt |-> 0, nColsOpt |-> 0, optDiff |-> NoDiff]
    /\ lastCall' = "__findGrid"
    /\ raised' = "none"
    /\ returned' = "None"
    /\ UNCHANGED <<stagingVars, exceptGrid>>

\* one turn of the loop over nRows, lines 240-248
findGridLoop ==
    /\ grid # <<>>
    /\ grid.at = "loop"
    /\ LET nRows == grid.nRows
           nCols == Ceil(grid.nPlots, nRows)
           diff  == nRows * nCols - grid.nPlots
           next  == [grid EXCEPT
                       !.nRows = nRows + 1,
                       !.at = IF nRows + 1 > nRowsDefault THEN "after" ELSE "loop"]
       IN  grid' = IF Better(nCols, diff, grid.optDiff)
                   THEN [next EXCEPT !.nRowsOpt = nRows, !.nColsOpt = nCols,
                                     !.optDiff = diff]
                   ELSE next
    /\ UNCHANGED <<stagingVars, lastCall, raised, returned, exceptGrid>>

\* lines 250-255: with no valid grid found, line 252 calls math.ceil with two
\* arguments, which raises TypeError; otherwise the grid kept is returned
findGridReturn ==
    /\ grid # <<>>
    /\ grid.at = "after"
    /\ IF grid.optDiff = NoDiff
       THEN /\ grid' = [grid EXCEPT !.at = "raised"]
            /\ raised' = "TypeError: ceil() takes exactly one argument (2 given)"
            /\ returned' = "None"
       ELSE /\ grid' = [grid EXCEPT !.at = "returned"]
            /\ raised' = "none"
            /\ returned' = "nRowsOpt, nColsOpt"
    /\ UNCHANGED <<stagingVars, lastCall, exceptGrid>>

InitGrid ==
    /\ NoModel
    /\ Constructed
    /\ NoSelection
    /\ NoValues
    /\ NothingLoaded
    /\ NothingElse

NextGrid ==
    \/ \E nPlots \in 1 .. MaxPlots : findGrid(nPlots)
    \/ findGridLoop
    \/ findGridReturn

SpecGrid == InitGrid /\ [][NextGrid]_vars

\* ------------------------------------------------------------------ claims

Min(a, b) == IF a <= b THEN a ELSE b

\* layer i is committed: its convolutions are frozen and its ActQuant units
\* quantize during training and add no noise
Staged(i) ==
    /\ ~requires_grad[conv(i)]
    /\ layersList[i].quatize_during_training
    /\ ~layersList[i].noise_during_training

\* C1: on a Network, every call of switch_stage() returns normally, the
\* cursor after k calls is min(k, L), the cell just committed is staged, and
\* from the L-th call on every cell's convolutions are frozen; in particular
\* the (L+1)-th call does not fail and leaves the cursor at L.
C1_SwitchStageUpToLastLayer ==
    (cls = "Network" /\ lastCall = "switch_stage") =>
        /\ raised = "none"
        /\ nLayersQuantCompleted = Min(switchCalls, nLayers)
        /\ Staged(nLayersQuantCompleted - 1)
        /\ switchCalls >= nLayers =>
              \A i \in LayerIdx : ~requires_grad[conv(i)]

\* C2: the cursor stays within 0 .. number of stageable layers in every
\* reachable state, the states inside updateCheckpointStatistics() included.
C2_CursorInRange ==
    /\ nLayersQuantCompleted >= 0
    /\ nLayersQuantCompleted <= nLayers

\* the cursor has been moved to the last layer by updateCheckpointStatistics()
\* on a model with unstaged layers
C2_Witness ==
    /\ pc = "ucs"
    /\ nLayersQuantCompletedOrg < nLayers
    /\ nLayersQuantCompleted = nLayers

\* C3 as stated: between any two consecutive states the cursor never
\* decreases.
C3_CursorNeverDecreases ==
    [][nLayersQuantCompleted' >= nLayersQuantCompleted]_vars

\* the step of updateCheckpointStatistics() that ends it normally
RestoreStep == pc = "ucs" /\ pc' = "idle" /\ raised' = "none"

\* C3 as amended: the only step that lowers the cursor is the last one of
\* updateCheckpointStatistics(), which puts back the value saved at its
\* start; the saved value is never above the cursor it replaces, and every
\* other step leaves the cursor where it is or moves it up.
C3_CursorRestoredOrMonotonic ==
    /\ [](pc = "ucs" => nLayersQuantCompletedOrg <= nLayersQuantCompleted)
    /\ [][IF RestoreStep
          THEN nLayersQuantCompleted' = nLayersQuantCompletedOrg
          ELSE nLayersQuantCompleted' >= nLayersQuantCompleted]_vars

\* updateCheckpointStatistics() has recomputed the statistics of a model with
\* unstaged layers and has put the cursor back below the last layer
C3_Witness ==
    /\ lastCall = "updateCheckpointStatistics"
    /\ returned = "True"
    /\ nLayersQuantCompleted < nLayers
    /\ nLayersQuantCompleted > 0

\* C4: preForward invoked while the flag of an earlier preForward is still
\* set fails the hookFlag assertion and changes neither a layer nor the flag;
\* the flag is set whenever the last operation invoked was preForward.
C4_SecondPreForwardFails ==
    /\ [](lastCall = "preForward" => hookFlag)
    /\ [][(hookFlag /\ lastCall' = "preForward") =>
             /\ raised' = "assert hookFlag is False"
             /\ layersList' = layersList
             /\ hookFlag' = hookFlag]_vars

\* preForward has been invoked a second time during a forward pass with
\* staged layers: they are quantized once, the active layer is noisy once
C4_Witness ==
    /\ pc = "forward"
    /\ lastCall = "preForward"
    /\ raised = "assert hookFlag is False"
    /\ nLayersQuantCompleted > 0
    /\ nLayersQuantCompleted < nLayers

C6_ForwardSeesQuantizedAndNoisy ==
    /\ [](pc = "forward" =>
            \A i \in LayerIdx :
               /\ i < nLayersQuantCompleted => layersList[i].weights = "quantized"
               /\ i = nLayersQuantCompleted => layersList[i].weights = "noisy"
               /\ i > nLayersQuantCompleted => layersList[i].weights # "noisy")
    /\ [][(pc = "forward" /\ lastCall' = "postForward") =>
             /\ raised' = "none"
             /\ \A i \in LayerIdx :
                   i <= nLayersQuantCompleted => layersList'[i].weights = "float"]_vars

\* a forward pass in progress on a model with staged layers and an active one
C6_Witness ==
    /\ pc = "forward"
    /\ nLayersQuantCompleted > 0
    /\ nLayersQuantCompleted < nLayers

C9_StagedForever ==
    [][\A i \in LayerIdx : Staged(i) => Staged(i)']_vars

\* C9 as amended: frozen convolutions stay frozen in every later state, and
\* a committed layer stays committed across every operation but
\* ActQuant.update_stage, which overwrites the two flags of the unit it is
\* called on with its arguments.
C9_StagedUntilUpdateStage ==
    [][\A i \in LayerIdx :
          /\ ~requires_grad[conv(i)] => ~requires_grad'[conv(i)]
          /\ (Staged(i) /\ lastCall' # "update_stage") => Staged(i)']_vars

\* update_stage() has reset the flags of a committed cell
C9_Witness ==
    /\ lastCall = "update_stage"
    /\ \E i \in LayerIdx :
          /\ ~requires_grad[conv(i)]
          /\ ~layersList[i].quatize_during_training
          /\ ~layersList[i].noise_during_training

Probed == lastCall \in {"applyOnBaseline", "calcBaselineBops"}

\* C11: a call of applyOnBaseline(func) that returns leaves every filter's
\* curr_alpha_idx equal to its value before the call, whatever the indices
\* were and whatever bitwidths were probed.
C11_IndicesRestoredOnReturn ==
    [][(Probed' /\ raised' = "none") => curr_alpha_idx' = curr_alpha_idx]_vars

\* C11 witness: a call has returned after two evaluations, one of which was
\* made with the filters pointed away from where they are now
C11_Witness ==
    /\ Probed
    /\ raised = "none"
    /\ Len(evaluations) >= 2
    /\ \E k \in 1 .. Len(evaluations) : evaluations[k].idx # curr_alpha_idx

\* C12: restoration is unconditional: every call of applyOnBaseline, also
\* one in which the probing or func fails part-way, ends with every
\* filter's curr_alpha_idx equal to its value before the call.
C12_IndicesRestoredAlways ==
    [][Probed' => curr_alpha_idx' = curr_alpha_idx]_vars

\* the distinct bitwidths in the lists of the given layers
BitwidthsOf(layers) ==
    UNION {{bitwidths[l][k] : k \in 1 .. Len(bitwidths[l])} : l \in layers}

AnyLayer == 0 .. (nLayers - 1)

LayerWithReLU == {l \in 0 .. (nLayers - 1) : withReLU[l]}

\* C13 as stated: a call that returns has evaluated func once for each
\* distinct bitwidth of any layer's list, each time with every filter of
\* every layer selecting the operation of that very bitwidth, and the map
\* has one entry per such bitwidth.
C13_EveryBitwidthProbedExactly ==
    (Probed /\ raised = "none") =>
        /\ DOMAIN baselineBops = BitwidthsOf(AnyLayer)
        /\ Len(evaluations) = Cardinality(BitwidthsOf(AnyLayer))
        /\ \A k \in 1 .. Len(evaluations) : \A l \in 0 .. (nLayers - 1) :
              \A f \in Filters :
                 CurrentBitwidth(evaluations[k].idx, l, f) = evaluations[k].bitwidth

\* C13, amended: func is evaluated at most once per bitwidth; at each
\* evaluation every filter of every layer selects the operation of the
\* probed bitwidth, or, in a layer that lacks it, the operation of
\* (bitwidth[0], None); a call that returns has evaluated exactly the
\* distinct bitwidths of the layers of MixedConvWithReLU filters, and the
\* map has one entry for each of them.
C13_ReLUBitwidthsProbedOnce ==
    Probed =>
        /\ \A j, k \in 1 .. Len(evaluations) :
              evaluations[j].bitwidth = evaluations[k].bitwidth => j = k
        /\ \A k \in 1 .. Len(evaluations) : \A l \in 0 .. (nLayers - 1) :
              \A f \in Filters :
                 LET b == evaluations[k].bitwidth
                 IN  CurrentBitwidth(evaluations[k].idx, l, f) =
                        (IF Has(bitwidths[l], b) THEN b ELSE <<b[1], None>>)
        /\ raised = "none" =>
              /\ DOMAIN baselineBops = BitwidthsOf(LayerWithReLU)
              /\ {evaluations[k].bitwidth : k \in 1 .. Len(evaluations)} =
                    BitwidthsOf(LayerWithReLU)

\* C13 witness: a call has returned a map of two bitwidths from a model
\* that has a layer without ReLU, whose filters were pointed at (4, None)
C13_Witness ==
    /\ Probed
    /\ raised = "none"
    /\ Cardinality(DOMAIN baselineBops) = 2
    /\ \E l \in 0 .. (nLayers - 1) : \E k \in 1 .. Len(evaluations) :
          /\ ~withReLU[l]
          /\ CurrentBitwidth(evaluations[k].idx, l, 1) = <<4, None>>

\* C14: countBops() in discrete mode is one left-to-right pass: getBops is
\* called once per layer, in layer order; the first layer receives the
\* bitwidth 8 for each of the 3 input feature maps, layer i+1 receives the
\* output bitwidths reported by layer i; the result is the sum of the
\* per-layer costs over 1E9; and the call changes no state of any layer.
C14_SinglePass ==
    /\ [](lastCall = "countBops" =>
            /\ Len(getBopsCalls) = nLayers
            /\ \A k \in 1 .. nLayers : getBopsCalls[k].layer = k - 1
            /\ getBopsCalls[1].input_bitwidth = <<8, 8, 8>>
            /\ \A k \in 1 .. (nLayers - 1) :
                  getBopsCalls[k + 1].input_bitwidth =
                     getCurrentOutputBitwidth(curr_alpha_idx, k - 1)
            /\ returned.den = 1000000000
            /\ returned.num =
                  Sum([k \in 1 .. nLayers |->
                         getBops(curr_alpha_idx, k - 1, getBopsCalls[k].input_bitwidth)]))
    /\ [][lastCall' = "countBops" =>
            UNCHANGED <<stagingVars, bitwidths, withReLU, curr_alpha_idx>>]_vars

\* C14 witness: countBops has returned for a model of two layers, the
\* second of which received bitwidths other than those of the model's input
C14_Witness ==
    /\ lastCall = "countBops"
    /\ nLayers = 2
    /\ getBopsCalls[2].input_bitwidth # getBopsCalls[1].input_bitwidth
    /\ returned.num > 0

\* bitwidth b1 is below bitwidth b2: no component is larger, and one is smaller
Below(b1, b2) == b1[1] <= b2[1] /\ b1[2] <= b2[2] /\ b1 # b2

\* C15: with a layer cost that is the product of the input bitwidths and
\* the weight bitwidth, the discrete count of the model forced to bitwidth
\* b1 is at most the count of the model forced to b2, whenever b1 < b2.
C15_BopsMonotone ==
    (lastCall = "calcBaselineBops" /\ raised = "none") =>
        \A b1, b2 \in DOMAIN baselineBops :
            Below(b1, b2) =>
                /\ baselineBops[b1].den = baselineBops[b2].den
                /\ baselineBops[b1].num <= baselineBops[b2].num

\* C15 witness: the baseline map holds the counts of two bitwidths, one
\* below the other, for a model of two layers, and the counts differ
C15_Witness ==
    /\ lastCall = "calcBaselineBops"
    /\ raised = "none"
    /\ nLayers = 2
    /\ \E b1, b2 \in DOMAIN baselineBops :
          Below(b1, b2) /\ baselineBops[b1].num < baselineBops[b2].num

\* C16: restoreQuantizationForStagedLayers() puts the quantized weights in
\* every staged layer, and after any number n >= 1 of pairs of it and
\* removeQuantizationFromStagedLayers() the weights of every staged layer
\* are exactly the float weights held before the first pair.
C16_RoundTrip ==
    /\ (lastCall = "restoreQuantizationForStagedLayers" /\ raised = "none") =>
          \A i \in 0 .. (nLayersQuantCompleted - 1) :
              /\ layersList[i].weights = "quantized"
              /\ layersList[i].value = QuantizeValue(floatWeights[i])
    /\ (repetitions >= 1 /\ lastCall = "removeQuantizationFromStagedLayers") =>
          \A i \in 0 .. (nLayersQuantCompleted - 1) :
              /\ layersList[i].weights = "float"
              /\ layersList[i].value = floatWeights[i]

\* C16 witness: two pairs are completed on two staged layers, one of them
\* with a float weight that quantization alters
C16_Witness ==
    /\ repetitions = 2
    /\ lastCall = "removeQuantizationFromStagedLayers"
    /\ nLayersQuantCompleted = 2
    /\ \E i \in 0 .. 1 :
          /\ QuantizeValue(floatWeights[i]) # floatWeights[i]
          /\ layersList[i].value = floatWeights[i]

\* the quantized and added_noise flags of every layer
Flags(ls) == [i \in DOMAIN ls |-> <<ls[i].quantized, ls[i].added_noise>>]

\* layer i passes the three tests of isQuantized()
PassesCheck(i) ==
    /\ layersList[i].quantized
    /\ ~layersList[i].added_noise
    /\ layersList[i].weights = "quantized"

BulkCall == {"quantizeUnstagedLayers", "unQuantizeUnstagedLayers"}

\* C17: quantizeUnstagedLayers() succeeds when the staged layers pass the
\* check and no unstaged layer is quantized, and then every layer reports
\* quantized and no noise; unQuantizeUnstagedLayers() after it returns every
\* layer's flags to what they were before the pair; neither touches a staged
\* layer, and neither changes any layer when the cursor is at nLayers.
C17_BulkPair ==
    /\ [][(cls = "BaseNet" /\ lastCall' = "quantizeUnstagedLayers") =>
            /\ ((\A i \in LayerIdx :
                     IF i < nLayersQuantCompleted THEN PassesCheck(i)
                     ELSE ~layersList[i].quantized) => raised' = "none")
            /\ (raised' = "none" =>
                   \A i \in LayerIdx :
                       layersList'[i].quantized /\ ~layersList'[i].added_noise)]_vars
    /\ [][(cls = "BaseNet" /\ lastCall' \in BulkCall) =>
            /\ \A i \in LayerIdx :
                   i < nLayersQuantCompleted => layersList'[i] = layersList[i]
            /\ nLayersQuantCompleted = nLayers => layersList' = layersList]_vars
    /\ [][(cls = "BaseNet" /\ lastCall' = "unQuantizeUnstagedLayers") =>
            /\ \A i \in LayerIdx :
                   i >= nLayersQuantCompleted => ~layersList'[i].quantized
            /\ nLayersQuantCompleted < nLayers =>
                   layersList'[nLayersQuantCompleted].added_noise]_vars
    /\ [][(cls = "BaseNet" /\ lastCall' = "quantizeUnstagedLayers"
                            /\ raised' = "none") =>
            Flags(UnQuantizeUnstaged(layersList', nLayersQuantCompleted, nLayers))
               = Flags(layersList)]_vars

\* C17 witness: quantizeUnstagedLayers() has returned on a model with a
\* staged layer, the active layer and a free layer
C17_Witness ==
    /\ cls = "BaseNet"
    /\ lastCall = "quantizeUnstagedLayers"
    /\ raised = "none"
    /\ nLayersQuantCompleted = 1
    /\ nLayers = 3
    /\ \A i \in LayerIdx : layersList[i].quantized /\ ~layersList[i].added_noise

\* C18 as stated: isQuantized() returns True whenever every staged layer
\* passes the three tests, whatever the layers from the cursor on look like.
C18_ChecksStagedLayersOnly ==
    (lastCall = "isQuantized" /\
        \A i \in LayerIdx : i < nLayersQuantCompleted => PassesCheck(i))
    => returned = "True"

\* C18, amended: isQuantized() returns True exactly when every layer of the
\* model, staged or not, passes the three tests, and fails an assertion
\* otherwise.
C18_ChecksEveryLayer ==
    lastCall = "isQuantized" =>
        /\ returned = "True" <=> \A i \in LayerIdx : PassesCheck(i)
        /\ returned = "True" <=> raised = "none"

\* C18 witness: isQuantized() has failed on a model whose staged layers all
\* pass, because of a layer beyond the cursor
C18_Witness ==
    /\ lastCall = "isQuantized"
    /\ raised # "none"
    /\ nLayersQuantCompleted >= 1
    /\ nLayersQuantCompleted < nLayers
    /\ \A i \in LayerIdx : i < nLayersQuantCompleted => PassesCheck(i)

\* C19: once quantizeUnstagedLayers() has been called, and until
\* unQuantizeUnstagedLayers() or another operation is, a call of
\* quantizeUnstagedLayers() with the cursor below nLayers raises and
\* quantizes nothing.
C19_SecondQuantizeFails ==
    (cls = "BaseNet" /\ lastCall = "quantizeUnstagedLayers"
                    /\ nLayersQuantCompleted < nLayers) =>
        LET q == QuantizeUnstaged(layersList, nLayersQuantCompleted, nLayers)
        IN  q.err # "none" /\ q.ls = layersList

\* C19 witness: quantizeUnstagedLayers() has raised the fail-fast error of
\* quantize on layers that a call before it had quantized
C19_Witness ==
    /\ cls = "BaseNet"
    /\ lastCall = "quantizeUnstagedLayers"
    /\ raised = "quantize without restore"
    /\ nLayersQuantCompleted < nLayers
    /\ \A i \in LayerIdx : layersList[i].quantized

\* the last call was loadPreTrained with a path that has no file
PathMissing == lastCall = "loadPreTrained" /\ loadArgs.path = "missing"

\* the last call was loadPreTrained with a checkpoint that fits no loader
FitsNeither ==
    /\ lastCall = "loadPreTrained"
    /\ loadArgs.path = "exists"
    /\ ~loadArgs.checkpoint.sameKeys
    /\ \A k \in 1 .. Len(loadFuncs) : loadArgs.results[loadFuncs[k]] = "False"

FailureLogged ==
    /\ raised = "none"
    /\ Len(loggerRows) = 1
    /\ loggerRows[1] \in {"Path: failed, path does not exists",
                          "Path: failed, state_dict does not fit"}
    /\ infoTable = <<loggerRows>>

\* the loaders were called in the order of loadFuncs, the second only
\* after the first returned False
LoadersInOrder ==
    /\ \A k \in 1 .. Len(loadCalls) : loadCalls[k] = loadFuncs[k]
    /\ Len(loadCalls) <= 2
    /\ Len(loadCalls) = 2 => loadArgs.results["loadUNIQPreTrained"] = "False"

\* C20 as stated: with a missing path, or with any checkpoint whose state
\* dict fits neither loader, loadPreTrained() returns without raising and
\* logs a failure row; the loaders are tried in order and the second is not
\* called when the first succeeds.
C20_LoadFailsQuietly ==
    /\ (PathMissing \/ FitsNeither) => FailureLogged
    /\ lastCall = "loadPreTrained" => LoadersInOrder

\* C20, amended: the same, for the checkpoints that carry
\* updated_statistics == True; any other checkpoint makes the call raise
\* before a loader is tried.
C20_LoadFailsQuietlyWithStatistics ==
    /\ PathMissing => (FailureLogged /\ loadCalls = <<>>)
    /\ (FitsNeither /\ loadArgs.checkpoint.updated_statistics = "True") =>
          (FailureLogged /\ loadCalls = loadFuncs)
    /\ (lastCall = "loadPreTrained" /\ loadArgs.path = "exists"
            /\ loadArgs.checkpoint.updated_statistics # "True") =>
          (raised # "none" /\ loadCalls = <<>> /\ infoTable = <<>>)
    /\ lastCall = "loadPreTrained" => LoadersInOrder

\* C20 witness: a checkpoint that fits neither loader was tried by both, in
\* order, and the failure row is in the table logged
C20_Witness ==
    /\ FitsNeither
    /\ loadCalls = <<"loadUNIQPreTrained", "loadSingleOpPreTrained">>
    /\ raised = "none"
    /\ infoTable = <<(<<"Path: failed, state_dict does not fit">>)>>

\* the last call was loadPreTrained with an existing checkpoint whose
\* state-dict keys are exactly the model's
ExactKeys ==
    /\ lastCall = "loadPreTrained"
    /\ loadArgs.path = "exists"
    /\ loadArgs.checkpoint.sameKeys

\* the last call was loadPreTrained and a loader took the checkpoint's weights
Remapped ==
    /\ lastCall = "loadPreTrained"
    /\ loadCalls # <<>>
    /\ loadArgs.results[Last(loadCalls)] # "False"

\* C21 as stated: loadPreTrained() with an existing checkpoint whose
\* state-dict keys match the model's exactly (and whose statistics are up to
\* date) loads the checkpoint directly (no remapping loader is called) and
\* succeeds (nothing is raised and the success rows are logged).
C21_ExactKeysLoadDirectly ==
    (ExactKeys /\ loadArgs.checkpoint.updated_statistics = "True") =>
        /\ raised = "none"
        /\ loadCalls = <<>>
        /\ Len(loggerRows) = 4
        /\ infoTable = <<loggerRows>>

\* C22 as stated: the value loadPreTrained() returns is True exactly when
\* the checkpoint's weights were loaded, and False when the path is None,
\* missing, or the state dict fits no loader.
C22_ReturnsSuccessFlag ==
    (lastCall = "loadPreTrained" /\ raised = "none") =>
        (returned = "True" <=> Remapped)

\* C22, amended: a call of loadPreTrained() that returns, returns False,
\* also when a remapping loader took the weights (the success rows are then
\* the only report); the call never returns True, and with keys equal to
\* the model's it raises.
C22_ReturnsFalse ==
    /\ (lastCall = "loadPreTrained" /\ raised = "none") => returned = "False"
    /\ lastCall = "loadPreTrained" => returned # "True"
    /\ (ExactKeys /\ loadArgs.checkpoint.updated_statistics = "True") =>
          raised = "assert (False)"
    /\ Remapped => (raised = "none" /\ Len(loggerRows) = 4)

\* C22 witness: the second loader took the weights, the success rows were
\* logged, and the call returned False
C22_Witness ==
    /\ Remapped
    /\ loadCalls = loadFuncs
    /\ loadedBy = "loadSingleOpPreTrained"
    /\ Len(loggerRows) = 4
    /\ returned = "False"

\* C23: updateCheckpointStatistics() on a checkpoint whose updated_statistics
\* is True returns False and changes neither the model nor the checkpoint
\* nor the saved file; on any other checkpoint a call that returns has run
\* calcStatistics once, set the flag to True, saved the checkpoint and
\* returned True; statistics are recomputed at most once per checkpoint, so
\* the call after a successful one returns False and recomputes nothing.
C23_OneTimeFlag ==
    [][lastCall' = "updateCheckpointStatistics" =>
          /\ (pc = "idle" /\ optCheckpoint.updated_statistics = "True") =>
                /\ raised' = "none"
                /\ returned' = "False"
                /\ UNCHANGED <<stagingVars, checkpointState>>
          /\ (pc = "idle" /\ optCheckpoint.updated_statistics # "True"
                  /\ raised' = "none") =>
                /\ pc' = "ucs"
                /\ UNCHANGED checkpointState
          /\ (pc = "ucs" /\ raised' = "none") =>
                /\ returned' = "True"
                /\ optCheckpoint.updated_statistics # "True"
                /\ optCheckpoint'.updated_statistics = "True"
                /\ savedFile' = optCheckpoint'
                /\ statisticsRuns = 0
                /\ statisticsRuns' = 1
          /\ (pc = "idle" /\ returned = "True"
                  /\ lastCall = "updateCheckpointStatistics") =>
                /\ returned' = "False"
                /\ UNCHANGED <<stagingVars, checkpointState>>]_vars

\* C23 witness: the checkpoint was brought up to date by one run of
\* calcStatistics and saved, and the call made after that returned False
C23_Witness ==
    /\ lastCall = "updateCheckpointStatistics"
    /\ pc = "idle"
    /\ raised = "none"
    /\ returned = "False"
    /\ statisticsRuns = 1
    /\ optCheckpoint.updated_statistics = "True"
    /\ savedFile = optCheckpoint

\* the attributes BaseNet.__init__ assigns after the counting function:
\* the staging cursor, the baseline bops, the loss criterion and the hooks
AfterLookup ==
    {"nLayersQuantCompleted", "baselineBops", "_criterion", "hooksList",
     "hookFlag"}

\* BaseNet was called with a bops-counter mode that countBopsFuncs lacks
UnknownMode == args # <<>> /\ args.bopsCounter \notin DOMAIN countBopsFuncs

\* C24: constructing a model with a bops-counter mode that is no key of
\* countBopsFuncs fails at the lookup with KeyError, before the staging
\* cursor, the baseline bops, the loss criterion or the hooks are
\* initialised, and the caller never holds a model.
C24_UnknownModeFailsFast ==
    UnknownMode =>
        /\ DOMAIN attrs \cap AfterLookup = {}
        /\ cls = "none"
        /\ initLine = 0 => raised = "KeyError"

\* C24 witness: __init__ was left at the lookup of mode 'continuous', with
\* only the layers built
C24_Witness ==
    /\ UnknownMode
    /\ args.bopsCounter = "continuous"
    /\ initLine = 0
    /\ raised = "KeyError"
    /\ DOMAIN attrs = {"layers", "layersList"}

\* the last call was forward on the unit
Forwarded == lastCall = "ActQuant.forward"

\* the condition of the first branch of ActQuant.forward
Hard ==
    actQuant.quant /\ (~actQuant.training \/ actQuant.quatize_during_training)

\* the condition of its second branch
Noisy ==
    ~Hard /\ actQuant.noise /\ actQuant.training /\ actQuant.noise_during_training

\* a staged unit with quant set
StagedUnit ==
    /\ actQuant.quatize_during_training
    /\ ~actQuant.noise_during_training
    /\ actQuant.quant

\* C25 as stated, for units whose bitwidth is an integer: forward quantizes
\* if and only if quant is set and the unit is not training or trains with
\* quatize_during_training; otherwise it is a pass-through ReLU; a staged
\* unit with quant set quantizes in training and in evaluation; a unit with
\* quant unset never quantizes.
C25_QuantizeOrReLU ==
    (Forwarded /\ actQuant.bitwidth # None) =>
        /\ raised = "none"
        /\ returned = (IF Hard THEN "act_quantize" ELSE "relu")
        /\ StagedUnit => returned = "act_quantize"
        /\ ~actQuant.quant => returned # "act_quantize"

\* C25, amended: forward takes the quantization branch if and only if quant
\* is set and the unit is not training or trains with
\* quatize_during_training, and there quantizes when bitwidth is an integer
\* and fails its assertion when it is None; otherwise, with noise set in
\* training with noise_during_training, it fails assert (False); otherwise
\* it is a pass-through ReLU.  A staged unit with quant set and an integer
\* bitwidth quantizes in training and in evaluation; a unit with quant unset
\* never quantizes.
C25_QuantizeNoiseOrReLU ==
    Forwarded =>
        /\ (Hard /\ actQuant.bitwidth # None) =>
              (raised = "none" /\ returned = "act_quantize")
        /\ (Hard /\ actQuant.bitwidth = None) =>
              raised = "assert isinstance(bitwidth, int)"
        /\ Noisy => raised = "assert (False)"
        /\ (~Hard /\ ~Noisy) => (raised = "none" /\ returned = "relu")
        /\ (StagedUnit /\ actQuant.bitwidth # None) => returned = "act_quantize"
        /\ ~actQuant.quant => returned # "act_quantize"

\* C25 witness: a staged unit with quant set quantized in training mode
C25_Witness ==
    /\ Forwarded
    /\ StagedUnit
    /\ actQuant.training
    /\ actQuant.bitwidth = 4
    /\ returned = "act_quantize"

\* the number of mixed operations of a cell with that many steps, and the
\* offset of step i: the sum of 2 + t over the steps t before it
EdgesBefore(i) == 2 * i + (i * (i - 1)) \div 2

\* the calls of the cells made by the forward pass so far
CellCalls == {forwardPass.calls[c] : c \in 1 .. Len(forwardPass.calls)}

\* the uses of operation op in a call of Cell.forward, as <<step, input>>
UsesOf(f, op) ==
    {u \in {<<st, jj>> : st \in 1 .. Len(f.uses), jj \in 1 .. (MaxSteps + 3)} :
        u[2] <= Len(f.uses[u[1]]) /\ f.uses[u[1]][u[2]].op = op}

\* C26: Cell.forward with steps intermediate nodes uses each of its
\* sum(2 + i) mixed operations exactly once: step i sums the 2 + i
\* operations at indices offset .. offset + i + 1, applied to the 2 + i
\* states gathered so far, each weighted by the alpha row of its own index;
\* Cell.__init__ builds as many operations as _initialize_alphas makes rows;
\* the output concatenates the last multiplier states (for 1 <= multiplier
\* <= steps + 2, the states there are).
C26_EachOperationOnce ==
    \A call \in CellCalls :
        LET cell == network.cells[call.cell + 1]
            f == call.forward
            steps == cell._steps
        IN  /\ Len(cell._ops) = EdgesBefore(steps)
            /\ Len(cell._ops) = network.k
            /\ Len(f.uses) = steps
            /\ \A op \in 0 .. (Len(cell._ops) - 1) : Cardinality(UsesOf(f, op)) = 1
            /\ \A i \in 0 .. (steps - 1) :
                  /\ Len(f.uses[i + 1]) = 2 + i
                  /\ \A j \in 0 .. (i + 1) :
                        /\ f.uses[i + 1][j + 1].op = EdgesBefore(i) + j
                        /\ f.uses[i + 1][j + 1].h = j
                        /\ f.uses[i + 1][j + 1].row = EdgesBefore(i) + j
                        /\ cell._ops[EdgesBefore(i) + j + 1].i = i
                        /\ cell._ops[EdgesBefore(i) + j + 1].j = j
            /\ cell._multiplier \in 1 .. (steps + 2) =>
                  /\ Len(f.out) = cell._multiplier
                  /\ \A q \in 1 .. Len(f.out) :
                        f.out[q] = (steps + 2) - cell._multiplier + q - 1

\* C26 witness: a cell of three steps and multiplier 2 was run: its third
\* step used operations 5 to 8, and states 3 and 4 were concatenated
C26_Witness ==
    \E call \in CellCalls :
        /\ network.cells[call.cell + 1]._steps = 3
        /\ network.cells[call.cell + 1]._multiplier = 2
        /\ Len(call.forward.uses[3]) = 4
        /\ call.forward.uses[3][1].op = 5
        /\ call.forward.uses[3][4].op = 8
        /\ call.forward.out = <<3, 4>>

\* C27: in a reduction cell the operation on edge (step i, input j) has
\* stride 2 exactly when j < 2 and stride 1 otherwise; in any other cell
\* every operation has stride 1.
C27_StridePolicy ==
    network # <<>> =>
        \A c \in 1 .. Len(network.cells) :
            LET cell == network.cells[c]
            IN  \A o \in 1 .. Len(cell._ops) :
                    /\ cell._ops[o].stride \in {1, 2}
                    /\ cell._ops[o].stride = 2 <=>
                          (cell.reduction /\ cell._ops[o].j < 2)

\* C27 witness: a reduction cell with two steps was run: the edges from its
\* two inputs have stride 2, the edge from its first intermediate node
\* stride 1
C27_Witness ==
    /\ network # <<>>
    /\ \E c \in 1 .. Len(forwardPass.calls) :
          LET cell == network.cells[c]
          IN  /\ cell.reduction
              /\ cell._steps = 2
              /\ cell._ops[3] = [i |-> 1, j |-> 0, stride |-> 2]
              /\ cell._ops[4] = [i |-> 1, j |-> 1, stride |-> 2]
              /\ cell._ops[5] = [i |-> 1, j |-> 2, stride |-> 1]

\* the tensor cell i hands on; the stem's output stands before cell 0
OutputBefore(i) == IF i <= 0 THEN Tensor("stem", 0) ELSE Tensor("cell", i - 1)

\* C28: Network.forward runs the cells in order, s0, s1 := s1, cell(s0, s1,
\* weights): cell i receives the outputs of the two cells before it (the
\* stem's where there is none); reduction cells are exactly those at
\* indices layers // 3 and 2 * layers // 3 and receive softmax(alphas_reduce),
\* every other cell softmax(alphas_normal).
C28_CellsThreaded ==
    (network # <<>> /\ forwardPass.at # "idle") =>
        /\ Len(forwardPass.calls) = forwardPass.i
        /\ forwardPass.s0 = OutputBefore(forwardPass.i - 1)
        /\ forwardPass.s1 = OutputBefore(forwardPass.i)
        /\ forwardPass.at = "done" => forwardPass.i = network.layers
        /\ \A c \in 1 .. Len(forwardPass.calls) :
              LET call == forwardPass.calls[c]
                  i == c - 1
                  reduction == i = network.layers \div 3
                                  \/ i = (2 * network.layers) \div 3
              IN  /\ call.cell = i
                  /\ call.s0 = OutputBefore(i - 1)
                  /\ call.s1 = OutputBefore(i)
                  /\ network.cells[c].reduction = reduction
                  /\ call.weights = (IF reduction THEN "softmax(alphas_reduce)"
                                     ELSE "softmax(alphas_normal)")

\* C28 witness: a forward pass through five cells is done; cells 1 and 3
\* were the reduction cells and cell 4 received the outputs of cells 2 and 3
C28_Witness ==
    /\ network # <<>>
    /\ network.layers = 5
    /\ forwardPass.at = "done"
    /\ forwardPass.calls[2].weights = "softmax(alphas_reduce)"
    /\ forwardPass.calls[4].weights = "softmax(alphas_reduce)"
    /\ forwardPass.calls[3].weights = "softmax(alphas_normal)"
    /\ forwardPass.calls[5].s0 = Tensor("cell", 2)
    /\ forwardPass.calls[5].s1 = Tensor("cell", 3)

\* C29 as stated: with the hooks registered, a forward pass that starts in
\* evaluation mode fails in preForward and leaves hookFlag False and every
\* layer as it was, so that a later training forward pass can arm the hook.
C29_EvalForwardLeavesState ==
    [][(cls = "BaseNet" /\ lastCall' = "preForward" /\ hooksList > 0
            /\ pc = "idle" /\ ~hookFlag /\ ~training) =>
          /\ raised' # "none"
          /\ hookFlag' = FALSE
          /\ layersList' = layersList]_vars

\* between quantizeUnstagedLayers() and unQuantizeUnstagedLayers() with a
\* layer under the cursor: that layer is quantized
InBulkWindow ==
    /\ cls = "BaseNet"
    /\ pc = "idle"
    /\ nLayersQuantCompleted < nLayers
    /\ layersList[nLayersQuantCompleted].quantized

\* C30 as stated: in the window of the bulk helpers a training forward pass
\* with the hooks registered does not run to completion: preForward fails
\* the added_noise assertion on the active layer before noise is injected.
C30_BulkWindowStopsForward ==
    [][(InBulkWindow /\ lastCall' = "preForward" /\ hooksList > 0 /\ training) =>
          /\ raised' = "assert layer.added_noise is True"
          /\ pc' # "forward"
          /\ layersList'[nLayersQuantCompleted].weights # "noisy"]_vars

\* C30, amended: in the window of the bulk helpers a training forward pass
\* with the hooks registered does not run to completion and injects no
\* noise: preForward fails the added_noise assertion on the active layer
\* when hookFlag is False and no staged layer holds quantized weights, fails
\* earlier, quantizing a staged layer that is quantized already, when one
\* does, and fails its first assertion when an earlier failure left
\* hookFlag True.
C30_BulkWindowStopsForwardSomewhere ==
    [][(InBulkWindow /\ lastCall' = "preForward" /\ hooksList > 0 /\ training) =>
          /\ raised' # "none"
          /\ pc' # "forward"
          /\ hookFlag'
          /\ \A i \in LayerIdx : layersList'[i].weights # "noisy"
          /\ hookFlag => raised' = "assert hookFlag is False"
          /\ (~hookFlag /\ \A i \in LayerIdx :
                  i < nLayersQuantCompleted => layersList[i].weights = "float") =>
                raised' = "assert layer.added_noise is True"
          /\ (~hookFlag /\ \E i \in LayerIdx :
                  i < nLayersQuantCompleted /\ layersList[i].weights # "float") =>
                raised' = "quantize without restore"]_vars

\* C30 witness: with the hooks registered and the model in training mode, a
\* forward pass begun after quantizeUnstagedLayers() stopped at the assertion
\* on the active layer's noise, the layer still quantized
C30_Witness ==
    /\ InBulkWindow
    /\ lastCall = "preForward"
    /\ raised = "assert layer.added_noise is True"
    /\ hooksList > 0
    /\ training
    /\ layersList[nLayersQuantCompleted].weights = "quantized"

\* the last call was updateCheckpointStatistics() and it returned
UpdateReturned ==
    /\ lastCall = "updateCheckpointStatistics"
    /\ pc = "idle"
    /\ raised = "none"

\* C31 as stated: when updateCheckpointStatistics() has returned, after
\* recomputing the statistics or finding the checkpoint up to date, the
\* staging cursor is what it was before the call and every layer has the
\* quantized and added_noise flags it had before the call.
C31_CursorAndFlagsKept ==
    UpdateReturned =>
        /\ nLayersQuantCompleted = atCall.nLayersQuantCompleted
        /\ Flags(layersList) = Flags(atCall.layersList)

\* calcStatistics is the last call made and has not been left by an exception
InCalcStatistics ==
    /\ lastCall = "calcStatistics"
    /\ calc.at \in {"loop", "after", "done"}

\* C32: from the first turn of the collection loop to its last, every
\* activation-quantization unit has its forward bound to the statistics
\* collection; once calcStatistics() has returned no unit is bound to it any
\* more; and throughout the call, and after it, the staging cursor and the
\* quantized and added_noise flags of every layer are those the call was
\* entered with and the model is in evaluation mode.
C32_UnitsSwitchedAndRestored ==
    /\ (pc = "calcStatistics" /\ calc.at \in {"loop", "after"}) =>
           \A i \in LayerIdx : unitForward[i] # "standardForward"
    /\ calc.at = "done" =>
           \A i \in LayerIdx : unitForward[i] # "statisticsForward"
    /\ (lastCall = "calcStatistics" /\ calc.at # "idle") =>
           /\ nLayersQuantCompleted = calc.entry.nLayersQuantCompleted
           /\ Flags(layersList) = Flags(calc.entry.layersList)
           /\ ~training

\* calcStatistics() has returned after forward passes through a model that
\* has units and a quantized layer
C32_Witness ==
    /\ InCalcStatistics
    /\ calc.at = "done"
    /\ calc.passes > 0
    /\ \E i \in LayerIdx : unitForward[i] = "standardForward"
    /\ \E i \in LayerIdx : layersList[i].quantized

\* calcStatistics with the loop always given its turn: the call runs in one
\* thread and nothing waits between two statements
SpecCalcFair ==
    /\ SpecCalc
    /\ WF_vars(calcStatisticsBatch)
    /\ WF_vars(calcStatisticsEnd)

\* what a calcStatistics() that returned has drawn from a queue
DrawnFrom(queue) ==
    IF queue.unbounded THEN nBatches + 1 ELSE Min(queue.len, nBatches + 1)

\* C33 as stated: calcStatistics() never takes more than nBatches batches
\* from statistics_queue.
C33_AtMostNBatchesDrawn == calc.drawn <= nBatches

\* C33, amended: calcStatistics() makes at most nBatches forward passes and
\* the loop ends, by the call returning or by an exception; it draws at most
\* nBatches + 1 batches from the queue, the last of them drawn by enumerate
\* and dropped by the break; when it returns it has passed every batch of a
\* queue of at most nBatches through the model and has drawn all of them.
C33_AtMostNBatchesPassed ==
    /\ [](/\ calc.passes <= nBatches
          /\ calc.drawn <= nBatches + 1
          /\ calc.at = "done" =>
                /\ calc.drawn = DrawnFrom(statistics_queue)
                /\ calc.passes = Min(calc.drawn, nBatches))
    /\ (calc.at = "loop") ~> (calc.at \in {"done", "raised"})

\* calcStatistics() has returned from a queue longer than nBatches
C33_Witness ==
    /\ InCalcStatistics
    /\ calc.at = "done"
    /\ ~statistics_queue.unbounded
    /\ statistics_queue.len > nBatches + 1
    /\ calc.passes = nBatches

\* C34 as stated: load_alphas_state(s) gives every layer the alphas it had
\* when s = save_alphas_state() was taken, whatever in-place updates the
\* alphas went through in between.
C34_RoundTrip ==
    lastCall = "load_alphas_state" => AlphasOf(tensorData) = alphasAtSave

\* C35: hooksList is empty or holds the two handles of one pre-forward and
\* one post-forward hook.  setWeightsTrainingHooks() registers the pair when
\* the list is empty and fails its assertion, leaving the list as it is,
\* when it is not; removeWeightsTrainingHooks() never fails and leaves the
\* list empty, however often it is called; nothing else changes the list.
\* So a set after a remove always succeeds.
C35_HookRegistration ==
    [][/\ hooksList' \in {0, 2}
       /\ lastCall' = "setWeightsTrainingHooks" =>
             IF hooksList # 0
             THEN raised' = "assert len(hooksList) == 0" /\ hooksList' = hooksList
             ELSE raised' = "none" /\ hooksList' = 2
       /\ lastCall' = "removeWeightsTrainingHooks" =>
             raised' = "none" /\ hooksList' = 0
       /\ lastCall' \notin {"setWeightsTrainingHooks",
                           "removeWeightsTrainingHooks"} =>
             hooksList' = hooksList]_vars

\* a second setWeightsTrainingHooks() has failed with the pair registered
C35_Witness ==
    /\ cls = "BaseNet"
    /\ lastCall = "setWeightsTrainingHooks"
    /\ raised = "assert len(hooksList) == 0"
    /\ hooksList = 2

\* noise, training and noise_during_training are all set on the unit
NoiseSet ==
    actQuant.noise /\ actQuant.training /\ actQuant.noise_during_training

\* C36: a forward call of a unit with noise, training and
\* noise_during_training set never returns through the noise branch: when
\* the hard-quantization condition is false it fails assert (False) and has
\* no output; when the condition holds too, the hard quantization is taken
\* and assert (False) is not reached; and the hard quantization fails its
\* own assertion, with no output, when bitwidth is not an integer.
C36_NoiseNeverReturns ==
    Forwarded =>
        /\ (NoiseSet /\ ~Hard) =>
              (raised = "assert (False)" /\ returned = "None")
        /\ (NoiseSet /\ Hard) =>
              /\ raised # "assert (False)"
              /\ actQuant.bitwidth # None =>
                    (raised = "none" /\ returned = "act_quantize")
        /\ (Hard /\ actQuant.bitwidth = None) =>
              (raised = "assert isinstance(bitwidth, int)" /\ returned = "None")
        /\ raised = "assert (False)" => (NoiseSet /\ ~Hard)

\* a unit with both conditions true has quantized
C36_Witness ==
    /\ Forwarded
    /\ NoiseSet
    /\ Hard
    /\ returned = "act_quantize"

\* train() is over, by returning or by an exception
TrainOver == optimalModel.at \in {"done", "raised"}

\* the optimal checkpoint has been written at its path again
Rewritten == statisticsRuns > 0

\* C37 as stated: train() runs its statements in the order of the text; when
\* the assertion on isQuantized() fails nothing else is run and no file is
\* written; once the last checkpoint has been saved again the file at
\* lastPath carries updated_statistics == True; the optimal checkpoint is
\* not touched before that, and when train() is over after calling
\* updateCheckpointStatistics on an optimal checkpoint that fits the model,
\* the optimal checkpoint has been rewritten if and only if its flag was not
\* True on entry.
C37_FixedOrder ==
    LET done == optimalModel.done
    IN  /\ \A k \in 1 .. Len(done) : done[k] = TrainStatements[k]
        /\ (optimalModel.at = "raised" /\ done = <<"isQuantized">>) =>
              (lastFile = <<>> /\ ~Rewritten)
        /\ Len(done) >= 4 => lastFile.updated_statistics = "True"
        /\ Rewritten => Len(done) = 5
        /\ (TrainOver /\ Len(done) = 5 /\ optCheckpoint.fits) =>
              (Rewritten <=> optimalModel.optFlag # "True")

\* the empty cells of the grid with nRows rows for nPlots plots
EmptyCells(nPlots, nRows) == nRows * Ceil(nPlots, nRows) - nPlots

\* the row counts whose grid fits into nColsMax columns
FittingRows(nPlots) ==
    {r \in 1 .. nRowsDefault : Ceil(nPlots, r) <= nColsMax}

\* the call of __findGrid is over, by returning or by an exception
GridOver == grid # <<>> /\ grid.at \in {"returned", "raised"}

\* C38 as stated: for every nPlots >= 1 __findGrid returns a grid with
\* nRows * nCols >= nPlots and nCols <= nColsMax; when a grid of 1 ..
\* nRowsDefault rows fits, it is the fitting one with the fewest empty
\* cells, of the smallest row count on ties; for nPlots > nRowsDefault *
\* nColsMax it has nColsMax columns and the rows that takes.
C38_GridFound ==
    GridOver =>
        /\ grid.at = "returned"
        /\ grid.nRowsOpt * grid.nColsOpt >= grid.nPlots
        /\ grid.nColsOpt <= nColsMax
        /\ FittingRows(grid.nPlots) # {} =>
              /\ grid.nRowsOpt \in FittingRows(grid.nPlots)
              /\ grid.nColsOpt = Ceil(grid.nPlots, grid.nRowsOpt)
              /\ \A r \in FittingRows(grid.nPlots) :
                    \/ EmptyCells(grid.nPlots, r) > EmptyCells(grid.nPlots, grid.nRowsOpt)
                    \/ /\ EmptyCells(grid.nPlots, r) = EmptyCells(grid.nPlots, grid.nRowsOpt)
                       /\ r >= grid.nRowsOpt
        /\ grid.nPlots > nRowsDefault * nColsMax =>
              /\ grid.nColsOpt = nColsMax
              /\ grid.nRowsOpt = Ceil(grid.nPlots, nColsMax)

====
